---------------------------- MODULE Spec2Model ----------------------------
(***************************************************************************)
(* Model of the Polymesh staking pallet (pallets/staking/src/lib.rs):      *)
(* bonding ledger, validator/nominator registry, era/session scheduler,    *)
(* election bookkeeping, reward payout and deferred slashing.              *)
(*                                                                         *)
(* Storage maps are functions whose DOMAIN is the set of keys present.     *)
(* Option<T> is the empty tuple (None) or a one-element tuple (Some(x)).   *)
(***************************************************************************)
EXTENDS Integers, Sequences, FiniteSets, TLC

(***************************************************************************)
(* Bounds of the model and program constants.                              *)
(***************************************************************************)
\* Largest session index handed to new_session in the model.
MaxSession == 3
\* T::SessionsPerEra (runtime: 6), scaled to the model.
SessionsPerEra == 2
\* T::BondingDuration (runtime: 28), scaled to the model.
BondingDuration == 2
\* T::MaxNominatorRewardedPerValidator (runtime: 64), scaled to the model.
MaxNominatorRewardedPerValidator == 1
\* Unlocking chunks a ledger holds when unbond is called on it.
MaxChunks == 2
\* const MAX_NOMINATIONS
MAX_NOMINATIONS == 16
\* const MAX_UNLOCKING_CHUNKS
MAX_UNLOCKING_CHUNKS == 32
\* HistoryDepth default of decl_storage
DefaultHistoryDepth == 84
\* Perbill::ACCURACY is 10^9; the model keeps the same fixed-point arithmetic
\* with three decimal digits so that products stay inside the checker's
\* integers.
Accuracy == 10 * 10 * 10

Accounts == {"v1", "v2", "v3", "n1", "n2", "c1"}
Payees == {"Staked", "Stash", "Controller"}
Forcings == {"NotForcing", "ForceNew", "ForceNone", "ForceAlways"}

(***************************************************************************)
(* Generic helpers.                                                        *)
(***************************************************************************)
None == <<>>
Some(x) == <<x>>
IsSome(o) == o # <<>>
IsNone(o) == o = <<>>
Unwrap(o) == o[1]
UnwrapOr(o, d) == IF o = <<>> THEN d ELSE o[1]

Min(a, b) == IF a <= b THEN a ELSE b
Max(a, b) == IF a >= b THEN a ELSE b
SatSub(a, b) == IF a >= b THEN a - b ELSE 0

Get(m, k, d) == IF k \in DOMAIN m THEN m[k] ELSE d
Insert(m, k, v) == [x \in (DOMAIN m) \cup {k} |-> IF x = k THEN v ELSE m[x]]
Remove(m, k) == [x \in (DOMAIN m) \ {k} |-> m[x]]
EmptyMap == [x \in {} |-> 0]

RECURSIVE SumValues(_)
SumValues(s) == IF s = <<>> THEN 0 ELSE s[1].value + SumValues(Tail(s))

RECURSIVE SumFn(_, _)
SumFn(f, S) ==
  IF S = {} THEN 0
  ELSE LET x == CHOOSE y \in S : TRUE IN f[x] + SumFn(f, S \ {x})

SeqToSet(s) == {s[i] : i \in 1..Len(s)}

\* F applied to the value of v (v is evaluated once).
Bind(v, F(_)) == CHOOSE r \in {F(w) : w \in {v}} : TRUE
Front(s) == SubSeq(s, 1, Len(s) - 1)

(***************************************************************************)
(* State.                                                                  *)
(***************************************************************************)
VARIABLES
  \* --- currency (external collaborator, only what staking reads/writes)
  free,                 \* Currency::free_balance per account
  locks,                \* staking lock (STAKING_ID): stash -> locked amount
  minimum_balance,      \* Currency::minimum_balance(), fixed at construction
  \* --- identity (external collaborator)
  cdd,                  \* accounts that have an identity with a valid CDD claim
  \* --- staking storage
  HistoryDepth, ValidatorCount, MinimumValidatorCount, Invulnerables,
  Bonded, Ledger, Payee, Validators, Nominators,
  CurrentEra, ActiveEra, ErasStartSessionIndex,
  ErasStakers, ErasStakersClipped, ErasValidatorPrefs,
  ErasValidatorReward, ErasRewardPoints, ErasTotalStake,
  ForceEra, SlashRewardFraction,
  UnappliedSlashes, BondedEras, ValidatorSlashInEra, SlashingSpans, SpanSlash,
  EarliestUnappliedSlash, PermissionedValidators, ValidatorCommission,
  MinimumBondThreshold,
  SlashDeferDuration,   \* T::SlashDeferDuration, fixed at construction
  \* --- session module (external collaborator driving the scheduler)
  session,              \* [pc, index, validators, queued, failed]
  \* --- observation of the last operation and history of payouts/slashes
  last,                 \* [op, err, who, era, arg, ret]
  paid,                 \* era -> sum of the amounts paid by successful claims
  claims,               \* set of <<stash, era>> paid by a successful claim
  slashlog              \* [next, queued, applied, cancelled] over slash identifiers

currencyVars == <<free, locks, minimum_balance>>
configVars == <<HistoryDepth, ValidatorCount, MinimumValidatorCount, Invulnerables,
                SlashRewardFraction, ValidatorCommission, MinimumBondThreshold,
                SlashDeferDuration>>
ledgerVars == <<Bonded, Ledger, Payee>>
registryVars == <<Validators, Nominators, PermissionedValidators>>
eraVars == <<CurrentEra, ActiveEra, ErasStartSessionIndex, ForceEra, BondedEras>>
exposureVars == <<ErasStakers, ErasStakersClipped, ErasValidatorPrefs, ErasTotalStake>>
rewardVars == <<ErasValidatorReward, ErasRewardPoints>>
slashVars == <<UnappliedSlashes, ValidatorSlashInEra, SlashingSpans, SpanSlash,
               EarliestUnappliedSlash>>
ghostVars == <<paid, claims, slashlog>>

vars == <<currencyVars, cdd, configVars, ledgerVars, registryVars, eraVars,
          exposureVars, rewardVars, slashVars, session, last, ghostVars>>

(***************************************************************************)
(* StakingLedger and its methods.                                          *)
(***************************************************************************)
StakingLedger(stash, total, active, unlocking, last_reward) ==
  [stash |-> stash, total |-> total, active |-> active,
   unlocking |-> unlocking, last_reward |-> last_reward]

UnlockChunk(value, era) == [value |-> value, era |-> era]

\* StakingLedger::consolidate_unlocked: the filter keeps the chunks with
\* era > current_era and subtracts (saturating) every dropped chunk from total.
RECURSIVE consolidate_total(_, _, _)
consolidate_total(total, unlocking, current_era) ==
  IF unlocking = <<>> THEN total
  ELSE LET chunk == Head(unlocking) IN
       IF chunk.era > current_era
       THEN consolidate_total(total, Tail(unlocking), current_era)
       ELSE consolidate_total(SatSub(total, chunk.value), Tail(unlocking), current_era)

\* consolidate_unlocked releasing the chunks one era before their maturity.
consolidate_unlocked_one_era_early(l, current_era) ==
  [l EXCEPT !.total = consolidate_total(l.total, l.unlocking, current_era + 1),
            !.unlocking = SelectSeq(l.unlocking, LAMBDA chunk : chunk.era > current_era + 1)]

consolidate_unlocked(l, current_era) ==
  [l EXCEPT !.total = consolidate_total(l.total, l.unlocking, current_era),
            !.unlocking = SelectSeq(l.unlocking, LAMBDA chunk : chunk.era > current_era)]

\* StakingLedger::rebond: the while-let loop over the last chunk.
RECURSIVE rebond_loop(_, _, _)
rebond_loop(l, unlocking_balance, value) ==
  IF l.unlocking = <<>> THEN l
  ELSE
    LET n == Len(l.unlocking)
        lastc == l.unlocking[n]
        whole == unlocking_balance + lastc.value <= value
        diff == value - unlocking_balance
        ub2 == IF whole THEN unlocking_balance + lastc.value ELSE unlocking_balance + diff
        l2 == IF whole
              THEN [l EXCEPT !.active = @ + lastc.value, !.unlocking = Front(@)]
              ELSE [l EXCEPT !.active = @ + diff,
                             !.unlocking = [@ EXCEPT ![n].value = @ - diff]]
    IN IF ub2 >= value THEN l2 ELSE rebond_loop(l2, ub2, value)

\* StakingLedger::rebond consuming the oldest chunks first.
ledger_rebond_oldest_first(l, value) ==
  LET Reverse(q) == [k \in 1..Len(q) |-> q[Len(q) + 1 - k]]
      r == rebond_loop([l EXCEPT !.unlocking = Reverse(@)], 0, value)
  IN [r EXCEPT !.unlocking = Reverse(@)]

ledger_rebond(l, value) == rebond_loop(l, 0, value)

\* slash_out_of keeping a remainder equal to the minimum balance.
slash_out_of_strict_dust(total_remaining, target, value, min_bal) ==
  LET sft0 == Min(value, target) IN
  IF sft0 = 0 THEN [total |-> total_remaining, target |-> target, value |-> value]
  ELSE
    LET t1 == target - sft0
        dust == t1 < min_bal
    IN [total |-> SatSub(total_remaining, IF dust THEN sft0 + t1 ELSE sft0),
        target |-> IF dust THEN 0 ELSE t1,
        value |-> value - sft0]

\* The closure slash_out_of of StakingLedger::slash, on the triple
\* (total_remaining, target, value); returns the three updated numbers.
slash_out_of(total_remaining, target, value, min_bal) ==
  LET sft0 == Min(value, target) IN
  IF sft0 = 0 THEN [total |-> total_remaining, target |-> target, value |-> value]
  ELSE
    LET t1 == target - sft0
        dust == t1 <= min_bal
        sft == IF dust THEN sft0 + t1 ELSE sft0
        v1 == IF dust THEN value + t1 ELSE value
    IN [total |-> SatSub(total_remaining, sft),
        target |-> IF dust THEN 0 ELSE t1,
        value |-> v1 - sft]

\* The lazy iterator chain iter_mut().map(..).take_while(is_zero).count():
\* chunks are slashed front to back until the first chunk left non-zero.
\* Returns [total, value, unlocking, i] with i the number of drained chunks.
RECURSIVE slash_chunks(_, _, _, _, _)
slash_chunks(total, value, unlocking, k, min_bal) ==
  IF k > Len(unlocking)
  THEN [total |-> total, value |-> value, unlocking |-> unlocking, i |-> k - 1]
  ELSE
    Bind(slash_out_of(total, unlocking[k].value, value, min_bal), LAMBDA r :
      IF r.target = 0
      THEN slash_chunks(r.total, r.value, [unlocking EXCEPT ![k].value = r.target],
                        k + 1, min_bal)
      ELSE [total |-> r.total, value |-> r.value,
            unlocking |-> [unlocking EXCEPT ![k].value = r.target], i |-> k - 1])

\* StakingLedger::slash draining the unlocking chunks before active.
ledger_slash_chunks_first(l, value, min_bal) ==
  Bind(slash_chunks(l.total, value, l.unlocking, 1, min_bal), LAMBDA c :
    Bind(slash_out_of(c.total, l.active, c.value, min_bal), LAMBDA a :
      [ledger |-> [l EXCEPT !.total = a.total, !.active = a.target,
                            !.unlocking = SubSeq(c.unlocking, c.i + 1, Len(c.unlocking))],
       slashed |-> SatSub(l.total, a.total)]))

\* StakingLedger::slash: returns [ledger, slashed].
ledger_slash(l, value, min_bal) ==
  Bind(slash_out_of(l.total, l.active, value, min_bal), LAMBDA a :
    Bind(slash_chunks(a.total, a.value, l.unlocking, 1, min_bal), LAMBDA c :
      [ledger |-> [l EXCEPT !.total = c.total, !.active = a.target,
                            !.unlocking = SubSeq(c.unlocking, c.i + 1, Len(c.unlocking))],
       slashed |-> SatSub(l.total, c.total)]))


(***************************************************************************)
(* The storage as one value, so that a handler is a function from the      *)
(* storage it finds to the storage it leaves (err: the DispatchResult,     *)
(* ret: the value returned to the caller).  Nothing is rolled back when a  *)
(* handler returns an error: writes made before the error stay.            *)
(***************************************************************************)
Cur ==
  [free |-> free, locks |-> locks, minimum_balance |-> minimum_balance, cdd |-> cdd,
   HistoryDepth |-> HistoryDepth, ValidatorCount |-> ValidatorCount,
   MinimumValidatorCount |-> MinimumValidatorCount, Invulnerables |-> Invulnerables,
   Bonded |-> Bonded, Ledger |-> Ledger, Payee |-> Payee,
   Validators |-> Validators, Nominators |-> Nominators,
   CurrentEra |-> CurrentEra, ActiveEra |-> ActiveEra,
   ErasStartSessionIndex |-> ErasStartSessionIndex,
   ErasStakers |-> ErasStakers, ErasStakersClipped |-> ErasStakersClipped,
   ErasValidatorPrefs |-> ErasValidatorPrefs,
   ErasValidatorReward |-> ErasValidatorReward, ErasRewardPoints |-> ErasRewardPoints,
   ErasTotalStake |-> ErasTotalStake, ForceEra |-> ForceEra,
   SlashRewardFraction |-> SlashRewardFraction,
   UnappliedSlashes |-> UnappliedSlashes, BondedEras |-> BondedEras,
   ValidatorSlashInEra |-> ValidatorSlashInEra, SlashingSpans |-> SlashingSpans,
   SpanSlash |-> SpanSlash, EarliestUnappliedSlash |-> EarliestUnappliedSlash,
   PermissionedValidators |-> PermissionedValidators,
   ValidatorCommission |-> ValidatorCommission,
   MinimumBondThreshold |-> MinimumBondThreshold,
   SlashDeferDuration |-> SlashDeferDuration,
   session |-> session, paid |-> paid, claims |-> claims, slashlog |-> slashlog,
   err |-> "Ok", ret |-> None]

\* The storage S becomes the next state; `info` describes the call.
Commit(S, info) ==
  /\ free' = S.free /\ locks' = S.locks /\ minimum_balance' = S.minimum_balance
  /\ cdd' = S.cdd
  /\ HistoryDepth' = S.HistoryDepth /\ ValidatorCount' = S.ValidatorCount
  /\ MinimumValidatorCount' = S.MinimumValidatorCount
  /\ Invulnerables' = S.Invulnerables
  /\ Bonded' = S.Bonded /\ Ledger' = S.Ledger /\ Payee' = S.Payee
  /\ Validators' = S.Validators /\ Nominators' = S.Nominators
  /\ CurrentEra' = S.CurrentEra /\ ActiveEra' = S.ActiveEra
  /\ ErasStartSessionIndex' = S.ErasStartSessionIndex
  /\ ErasStakers' = S.ErasStakers /\ ErasStakersClipped' = S.ErasStakersClipped
  /\ ErasValidatorPrefs' = S.ErasValidatorPrefs
  /\ ErasValidatorReward' = S.ErasValidatorReward
  /\ ErasRewardPoints' = S.ErasRewardPoints /\ ErasTotalStake' = S.ErasTotalStake
  /\ ForceEra' = S.ForceEra /\ SlashRewardFraction' = S.SlashRewardFraction
  /\ UnappliedSlashes' = S.UnappliedSlashes /\ BondedEras' = S.BondedEras
  /\ ValidatorSlashInEra' = S.ValidatorSlashInEra
  /\ SlashingSpans' = S.SlashingSpans /\ SpanSlash' = S.SpanSlash
  /\ EarliestUnappliedSlash' = S.EarliestUnappliedSlash
  /\ PermissionedValidators' = S.PermissionedValidators
  /\ ValidatorCommission' = S.ValidatorCommission
  /\ MinimumBondThreshold' = S.MinimumBondThreshold
  /\ SlashDeferDuration' = S.SlashDeferDuration
  /\ session' = S.session
  /\ paid' = S.paid /\ claims' = S.claims /\ slashlog' = S.slashlog
  /\ last' = [op |-> info.op, who |-> info.who, era |-> info.era, arg |-> info.arg,
              err |-> S.err, ret |-> S.ret]

Call(op, who, era, arg) == [op |-> op, who |-> who, era |-> era, arg |-> arg]
Fail(S, e) == [S EXCEPT !.err = e]

(***************************************************************************)
(* Currency (pallet_balances), as far as staking uses it.                  *)
(***************************************************************************)
\* LockableCurrency::set_lock(STAKING_ID, stash, amount, ..)
set_lock(S, stash, amount) == [S EXCEPT !.locks = Insert(@, stash, amount)]
\* LockableCurrency::remove_lock(STAKING_ID, stash)
remove_lock(S, stash) == [S EXCEPT !.locks = Remove(@, stash)]
\* Currency::deposit_into_existing: an error when the account does not exist.
deposit_ok(S, who) == S.free[who] > 0
deposit_into_existing(S, who, amount) ==
  IF deposit_ok(S, who) THEN [S EXCEPT !.free[who] = @ + amount] ELSE S
\* Currency::slash: takes up to `value` from the account's balance.
currency_slash(S, who, value) == [S EXCEPT !.free[who] = SatSub(@, value)]

(***************************************************************************)
(* Internal mutators of Module<T>.                                         *)
(***************************************************************************)
current_era_or_0(S) == UnwrapOr(S.CurrentEra, 0)

update_ledger(S, controller, ledger) ==
  [set_lock(S, ledger.stash, ledger.total) EXCEPT
     !.Ledger = Insert(@, controller, ledger)]

\* chill_stash that leaves the nomination of the stash in place.
chill_stash_keeps_nomination(S, stash) ==
  [S EXCEPT !.Validators = Remove(@, stash)]

chill_stash(S, stash) ==
  [S EXCEPT !.Validators = Remove(@, stash), !.Nominators = Remove(@, stash)]

\* slashing::clear_stash_metadata
clear_stash_metadata(S, stash) ==
  [S EXCEPT !.SlashingSpans = Remove(@, stash), !.SpanSlash = Remove(@, stash)]

\* kill_stash leaving the nomination of the stash in place.
kill_stash_keeps_nominators(S, stash) ==
  IF stash \notin DOMAIN S.Bonded THEN Fail(S, "NotStash")
  ELSE clear_stash_metadata([S EXCEPT !.Bonded = Remove(@, stash),
                                      !.Ledger = Remove(@, S.Bonded[stash]),
                                      !.Payee = Remove(@, stash),
                                      !.Validators = Remove(@, stash)], stash)

kill_stash(S, stash) ==
  IF stash \notin DOMAIN S.Bonded THEN Fail(S, "NotStash")
  ELSE
    LET controller == S.Bonded[stash]
        S1 == [S EXCEPT !.Bonded = Remove(@, stash),
                        !.Ledger = Remove(@, controller),
                        !.Payee = Remove(@, stash),
                        !.Validators = Remove(@, stash),
                        !.Nominators = Remove(@, stash)]
    IN clear_stash_metadata(S1, stash)

\* unbond_balance without the dust rule: a remainder below the currency
\* minimum stays active.
unbond_balance_no_dust_rule(S, controller, ledger, value0) ==
  LET value == Min(value0, ledger.active) IN
  IF value = 0 THEN S
  ELSE update_ledger(S, controller,
         [ledger EXCEPT !.active = @ - value,
                        !.unlocking =
            Append(@, UnlockChunk(value, current_era_or_0(S) + BondingDuration))])

\* unbond_balance pushing the chunk without taking its value out of active.
unbond_balance_keeps_active(S, controller, ledger, value0) ==
  LET value == Min(value0, ledger.active) IN
  IF value = 0 THEN S
  ELSE update_ledger(S, controller,
         [ledger EXCEPT !.unlocking =
            Append(@, UnlockChunk(value, current_era_or_0(S) + BondingDuration))])

unbond_balance(S, controller, ledger, value0) ==
  LET value1 == Min(value0, ledger.active) IN
  IF value1 = 0 THEN S
  ELSE
    LET active1 == ledger.active - value1
        dust == active1 < S.minimum_balance
        value == IF dust THEN value1 + active1 ELSE value1
        active == IF dust THEN 0 ELSE active1
        era == current_era_or_0(S) + BondingDuration
        l2 == [ledger EXCEPT !.active = active,
                             !.unlocking = Append(@, UnlockChunk(value, era))]
    IN update_ledger(S, controller, l2)

payee_of(S, stash) == Get(S.Payee, stash, "Staked")

\* make_payout: returns the storage after the payment; whether an imbalance
\* was returned does not change storage.
make_payout(S, stash, amount) ==
  LET dest == payee_of(S, stash) IN
  CASE dest = "Controller" ->
         IF stash \in DOMAIN S.Bonded
         THEN deposit_into_existing(S, S.Bonded[stash], amount) ELSE S
    [] dest = "Stash" -> deposit_into_existing(S, stash, amount)
    [] dest = "Staked" ->
         IF stash \in DOMAIN S.Bonded /\ S.Bonded[stash] \in DOMAIN S.Ledger
         THEN LET c == S.Bonded[stash]
                  l == [S.Ledger[c] EXCEPT !.active = @ + amount, !.total = @ + amount]
              IN update_ledger(deposit_into_existing(S, stash, amount), c, l)
         ELSE S

\* The amount credited by make_payout (0 when nothing is deposited).
payout_credit(S, stash, amount) ==
  LET dest == payee_of(S, stash)
      target == IF dest = "Controller"
                THEN (IF stash \in DOMAIN S.Bonded THEN Some(S.Bonded[stash]) ELSE None)
                ELSE IF dest = "Stash" THEN Some(stash)
                ELSE IF stash \in DOMAIN S.Bonded /\ S.Bonded[stash] \in DOMAIN S.Ledger
                     THEN Some(stash) ELSE None
  IN IF IsSome(target) /\ deposit_ok(S, Unwrap(target)) THEN amount ELSE 0

(***************************************************************************)
(* Dispatchables: bonding.                                                 *)
(***************************************************************************)
\* bond locking the requested value whatever the stash holds.
bond_unclamped(S, stash, controller, value0, payee) ==
  IF stash \in DOMAIN S.Bonded THEN Fail(S, "AlreadyBonded")
  ELSE IF controller \in DOMAIN S.Ledger THEN Fail(S, "AlreadyPaired")
  ELSE IF ~(value0 >= S.minimum_balance) THEN Fail(S, "InsufficientValue")
  ELSE update_ledger([S EXCEPT !.Bonded = Insert(@, stash, controller),
                               !.Payee = Insert(@, stash, payee)],
                     controller, StakingLedger(stash, value0, value0, <<>>, S.CurrentEra))

bond(S, stash, controller, value0, payee) ==
  IF stash \in DOMAIN S.Bonded THEN Fail(S, "AlreadyBonded")
  ELSE IF controller \in DOMAIN S.Ledger THEN Fail(S, "AlreadyPaired")
  ELSE IF ~(value0 >= S.minimum_balance) THEN Fail(S, "InsufficientValue")
  ELSE
    LET S1 == [S EXCEPT !.Bonded = Insert(@, stash, controller),
                        !.Payee = Insert(@, stash, payee)]
        value == Min(value0, S.free[stash])
        item == StakingLedger(stash, value, value, <<>>, S.CurrentEra)
    IN update_ledger(S1, controller, item)

bond_extra(S, stash, max_additional) ==
  IF stash \notin DOMAIN S.Bonded THEN Fail(S, "NotStash")
  ELSE IF S.Bonded[stash] \notin DOMAIN S.Ledger THEN Fail(S, "NotController")
  ELSE
    LET controller == S.Bonded[stash]
        ledger == S.Ledger[controller]
        stash_balance == S.free[stash]
    IN IF stash_balance >= ledger.total   \* checked_sub is Some
       THEN LET extra == Min(stash_balance - ledger.total, max_additional)
            IN update_ledger(S, controller,
                 [ledger EXCEPT !.total = @ + extra, !.active = @ + extra])
       ELSE S

\* unbond admitting a chunk on a queue that is already full.
unbond_on_full_queue(S, controller, value) ==
  IF controller \notin DOMAIN S.Ledger THEN Fail(S, "NotController")
  ELSE IF ~(Len(S.Ledger[controller].unlocking) <= MAX_UNLOCKING_CHUNKS)
       THEN Fail(S, "NoMoreChunks")
  ELSE unbond_balance(S, controller, S.Ledger[controller], value)

unbond(S, controller, value) ==
  IF controller \notin DOMAIN S.Ledger THEN Fail(S, "NotController")
  ELSE IF ~(Len(S.Ledger[controller].unlocking) < MAX_UNLOCKING_CHUNKS)
       THEN Fail(S, "NoMoreChunks")
  ELSE unbond_balance(S, controller, S.Ledger[controller], value)

withdraw_unbonded(S, controller) ==
  IF controller \notin DOMAIN S.Ledger THEN Fail(S, "NotController")
  ELSE
    LET l0 == S.Ledger[controller]
        ledger == IF IsSome(S.CurrentEra)
                  THEN consolidate_unlocked(l0, Unwrap(S.CurrentEra)) ELSE l0
    IN IF ledger.unlocking = <<>> /\ ledger.active = 0
       THEN LET S1 == kill_stash(S, ledger.stash)
            IN IF S1.err # "Ok" THEN S1 ELSE remove_lock(S1, ledger.stash)
       ELSE update_ledger(S, controller, ledger)

rebond(S, controller, value) ==
  IF controller \notin DOMAIN S.Ledger THEN Fail(S, "NotController")
  ELSE IF ~(Len(S.Ledger[controller].unlocking) > 0) THEN Fail(S, "NoUnlockChunk")
  ELSE update_ledger(S, controller, ledger_rebond(S.Ledger[controller], value))

set_payee(S, controller, payee) ==
  IF controller \notin DOMAIN S.Ledger THEN Fail(S, "NotController")
  ELSE [S EXCEPT !.Payee = Insert(@, S.Ledger[controller].stash, payee)]

\* set_controller without the test for a ledger of the new controller.
set_controller_takes_paired(S, stash, controller) ==
  IF stash \notin DOMAIN S.Bonded THEN Fail(S, "NotStash")
  ELSE
    LET old_controller == S.Bonded[stash] IN
    IF controller # old_controller
    THEN LET S1 == [S EXCEPT !.Bonded = Insert(@, stash, controller)]
         IN IF old_controller \in DOMAIN S1.Ledger
            THEN [S1 EXCEPT !.Ledger =
                    Insert(Remove(@, old_controller), controller, S1.Ledger[old_controller])]
            ELSE S1
    ELSE S

set_controller(S, stash, controller) ==
  IF stash \notin DOMAIN S.Bonded THEN Fail(S, "NotStash")
  ELSE IF controller \in DOMAIN S.Ledger THEN Fail(S, "AlreadyPaired")
  ELSE
    LET old_controller == S.Bonded[stash] IN
    IF controller # old_controller
    THEN LET S1 == [S EXCEPT !.Bonded = Insert(@, stash, controller)]
         IN IF old_controller \in DOMAIN S1.Ledger
            THEN [S1 EXCEPT !.Ledger =
                    Insert(Remove(@, old_controller), controller, S1.Ledger[old_controller])]
            ELSE S1
    ELSE S

\* force_unstake dropping the records of the stash but not its lock.
force_unstake_keeps_lock(S, stash) == kill_stash(S, stash)

force_unstake(S, stash) ==
  LET S1 == kill_stash(S, stash)
  IN IF S1.err # "Ok" THEN S1 ELSE remove_lock(S1, stash)

\* Currency::total_balance: free + reserved; staking reserves nothing.
total_balance(S, who) == S.free[who]

reap_stash(S, stash) ==
  IF ~(total_balance(S, stash) = 0) THEN Fail(S, "FundedTarget")
  ELSE LET S1 == kill_stash(S, stash)
       IN IF S1.err # "Ok" THEN S1 ELSE remove_lock(S1, stash)

(***************************************************************************)
(* Identity (pallet_identity), as far as staking asks it.  cdd[a] is       *)
(*   "none"    - the account key has no identity,                          *)
(*   "expired" - an identity whose CDD claim is no longer valid,           *)
(*   "short"   - a CDD claim valid now but not through the bonding leeway, *)
(*   "long"    - a CDD claim valid through the bonding-duration leeway.    *)
(***************************************************************************)
CddStates == {"none", "expired", "short", "long"}
get_identity(S, who) == S.cdd[who] # "none"
has_valid_cdd(S, who) == S.cdd[who] \in {"short", "long"}
fetch_cdd_leeway(S, who) == S.cdd[who] = "long"

is_validator_or_nominator_compliant(S, stash) ==
  get_identity(S, stash) /\ has_valid_cdd(S, stash)

(***************************************************************************)
(* Dispatchables: registry.                                                *)
(***************************************************************************)
Nominations(targets, submitted_in) ==
  [targets |-> targets, submitted_in |-> submitted_in, suppressed |-> FALSE]

\* validate without the comparison with the global commission.
validate_any_commission(S, controller, commission) ==
  IF controller \notin DOMAIN S.Ledger THEN Fail(S, "NotController")
  ELSE
    LET ledger == S.Ledger[controller]
        stash == ledger.stash
    IN IF ~(ledger.active >= S.MinimumBondThreshold) THEN Fail(S, "InsufficientValue")
       ELSE [S EXCEPT !.Nominators = Remove(@, stash),
                      !.Validators = Insert(@, stash, [commission |-> commission])]

\* ValidatorCommission: None is Commission::Individual, Some(c) is Global(c).
validate(S, controller, commission) ==
  IF controller \notin DOMAIN S.Ledger THEN Fail(S, "NotController")
  ELSE
    LET ledger == S.Ledger[controller]
        stash == ledger.stash
    IN IF ~(ledger.active >= S.MinimumBondThreshold) THEN Fail(S, "InsufficientValue")
       ELSE IF IsSome(S.ValidatorCommission) /\ ~(commission = Unwrap(S.ValidatorCommission))
            THEN Fail(S, "InvalidCommission")
       ELSE [S EXCEPT !.Nominators = Remove(@, stash),
                      !.Validators = Insert(@, stash, [commission |-> commission])]

nominate(S, controller, targets) ==
  IF controller \notin DOMAIN S.Ledger THEN Fail(S, "NotController")
  ELSE
    LET stash == S.Ledger[controller].stash IN
    IF ~(targets # <<>>) THEN Fail(S, "EmptyTargets")
    ELSE IF get_identity(S, stash) /\ fetch_cdd_leeway(S, stash)
         THEN LET taken == SubSeq(targets, 1, Min(Len(targets), MAX_NOMINATIONS))
              IN [S EXCEPT !.Validators = Remove(@, stash),
                           !.Nominators = Insert(@, stash,
                              Nominations(taken, current_era_or_0(S)))]
         ELSE S

chill(S, controller) ==
  IF controller \notin DOMAIN S.Ledger THEN Fail(S, "NotController")
  ELSE chill_stash(S, S.Ledger[controller].stash)

\* origin: "Root" or a signed account.  The runtime configures EnsureRoot for
\* every Required*Origin and for SlashCancelOrigin.
ensure_root_origin(origin) == origin = "Root"
ensure_signed(origin) == origin # "Root"

add_permissioned_validator(S, origin, validator) ==
  IF ~ensure_root_origin(origin) THEN Fail(S, "NotAuthorised")
  ELSE IF validator \in DOMAIN S.PermissionedValidators THEN Fail(S, "AlreadyExists")
  ELSE [S EXCEPT !.PermissionedValidators = Insert(@, validator, "Pending")]

remove_permissioned_validator(S, origin, validator) ==
  IF ~ensure_root_origin(origin) THEN Fail(S, "NotAuthorised")
  ELSE IF ~ensure_signed(origin) THEN Fail(S, "BadOrigin")
  ELSE IF validator \notin DOMAIN S.PermissionedValidators THEN Fail(S, "NotExists")
  ELSE [S EXCEPT !.PermissionedValidators = Remove(@, validator)]

\* The loop of validate_cdd_expiry_nominators over targets[i..].
RECURSIVE cdd_expiry_loop(_, _, _)
cdd_expiry_loop(S, targets, i) ==
  IF i > Len(targets) THEN S
  ELSE
    LET target == targets[i] IN
    IF target \in DOMAIN S.Nominators /\ get_identity(S, target) /\ ~has_valid_cdd(S, target)
    THEN IF target \notin DOMAIN S.Bonded THEN Fail(S, "not a stash")
         ELSE IF S.Bonded[target] \notin DOMAIN S.Ledger THEN Fail(S, "not a controller")
         ELSE LET controller == S.Bonded[target]
                  ledger == S.Ledger[controller]
              IN IF Len(ledger.unlocking) < MAX_UNLOCKING_CHUNKS
                 THEN cdd_expiry_loop(
                        [unbond_balance(S, controller, ledger, ledger.active)
                           EXCEPT !.Nominators = Remove(@, target)],
                        targets, i + 1)
                 ELSE cdd_expiry_loop(S, targets, i + 1)
    ELSE cdd_expiry_loop(S, targets, i + 1)

validate_cdd_expiry_nominators(S, caller, targets) ==
  IF ~get_identity(S, caller) THEN Fail(S, "MissingCurrentIdentity")
  ELSE IF ~(targets # <<>>) THEN Fail(S, "targets cannot be empty")
  ELSE cdd_expiry_loop(S, targets, 1)

\* update_validator_prefs that leaves the stored preferences as they are.
update_validator_prefs_keeps_prefs(S, commission) == [S EXCEPT !.Validators = @]

\* update_validator_prefs
update_validator_prefs(S, commission) ==
  [S EXCEPT !.Validators = [v \in DOMAIN @ |-> [commission |-> commission]]]

enable_individual_commissions(S, origin) ==
  IF ~ensure_root_origin(origin) THEN Fail(S, "NotAuthorised")
  ELSE IF IsSome(S.ValidatorCommission)
       THEN [S EXCEPT !.ValidatorCommission = None]
       ELSE Fail(S, "AlreadyEnabled")

set_global_commission(S, origin, new_value) ==
  IF ~ensure_root_origin(origin) THEN Fail(S, "NotAuthorised")
  ELSE IF IsSome(S.ValidatorCommission)
       THEN IF ~(Unwrap(S.ValidatorCommission) # new_value) THEN Fail(S, "NoChange")
            ELSE update_validator_prefs(
                   [S EXCEPT !.ValidatorCommission = Some(new_value)], new_value)
       ELSE Fail(S, "AlreadyEnabled")

set_min_bond_threshold(S, origin, new_value) ==
  IF ~ensure_root_origin(origin) THEN Fail(S, "NotAuthorised")
  ELSE [S EXCEPT !.MinimumBondThreshold = new_value]

set_validator_count(S, origin, new) ==
  IF ~ensure_root_origin(origin) THEN Fail(S, "BadOrigin")
  ELSE [S EXCEPT !.ValidatorCount = new]

force_no_eras(S, origin) ==
  IF ~ensure_root_origin(origin) THEN Fail(S, "BadOrigin")
  ELSE [S EXCEPT !.ForceEra = "ForceNone"]

force_new_era(S, origin) ==
  IF ~ensure_root_origin(origin) THEN Fail(S, "BadOrigin")
  ELSE [S EXCEPT !.ForceEra = "ForceNew"]

force_new_era_always(S, origin) ==
  IF ~ensure_root_origin(origin) THEN Fail(S, "BadOrigin")
  ELSE [S EXCEPT !.ForceEra = "ForceAlways"]

set_invulnerables(S, origin, validators) ==
  IF ~ensure_root_origin(origin) THEN Fail(S, "BadOrigin")
  ELSE [S EXCEPT !.Invulnerables = validators]

(***************************************************************************)
(* Perbill (sp_arithmetic::PerThing) with ACCURACY = Accuracy.             *)
(***************************************************************************)
\* Perbill::from_rational_approximation(p, q)
from_rational_approximation(p, q) ==
  LET q1 == Max(q, 1)
      p1 == Min(p, q1)
      factor == Max(q1 \div Accuracy, 1)
      q_reduce == q1 \div factor
      p_reduce == p1 \div factor
  IN (p_reduce * Accuracy) \div q_reduce

\* Saturating for Perbill
perbill_saturating_add(a, b) == Min(a + b, Accuracy)
perbill_saturating_sub(a, b) == SatSub(a, b)
perbill_saturating_mul(a, b) == Min((a * b) \div Accuracy, Accuracy)

\* impl Mul<N> for Perbill: the product with a balance, the remainder part
\* rounded to nearest.
perbill_mul_balance(part, b) ==
  LET rem == b % Accuracy
      upper == rem * part
      divided == upper \div Accuracy
      rounded == IF upper % Accuracy > Accuracy \div 2 THEN divided + 1 ELSE divided
  IN (b \div Accuracy) * part + rounded

(***************************************************************************)
(* Reward payout.                                                          *)
(***************************************************************************)
Exposure(total, own, others) == [total |-> total, own |-> own, others |-> others]
DefaultExposure == Exposure(0, 0, <<>>)
IndividualExposure(who, value) == [who |-> who, value |-> value]
DefaultRewardPoints == [total |-> 0, individual |-> EmptyMap]

eras_stakers(S, era, v) == Get(Get(S.ErasStakers, era, EmptyMap), v, DefaultExposure)
eras_stakers_clipped(S, era, v) ==
  Get(Get(S.ErasStakersClipped, era, EmptyMap), v, DefaultExposure)
eras_validator_prefs(S, era, v) ==
  Get(Get(S.ErasValidatorPrefs, era, EmptyMap), v, [commission |-> 0])
eras_reward_points(S, era) == Get(S.ErasRewardPoints, era, DefaultRewardPoints)

\* The test with > for >=: the era of last_reward is not foreclosed.
already_rewarded_strict(ledger, era) ==
  IsSome(ledger.last_reward) /\ Unwrap(ledger.last_reward) > era

\* last_reward.map(|last_reward| last_reward >= era).unwrap_or(false)
already_rewarded(ledger, era) ==
  IsSome(ledger.last_reward) /\ Unwrap(ledger.last_reward) >= era

\* Observation: a successful claim of `amount` for `era` by `stash`.
record_claim(S, stash, era, amount) ==
  [S EXCEPT !.paid = Insert(@, era, Get(@, era, 0) + amount),
            !.claims = @ \cup {<<stash, era>>},
            !.ret = Some(amount)]

\* The loop of do_payout_nominator without the test of the entry's owner.
RECURSIVE nominator_reward_any_owner(_, _, _, _, _, _)
nominator_reward_any_owner(S, era, stash, validators, i, reward) ==
  IF i > Len(validators) THEN reward
  ELSE
    LET validator == validators[i][1]
        nominator_index == validators[i][2]
        commission == eras_validator_prefs(S, era, validator).commission
        validator_exposure == eras_stakers_clipped(S, era, validator)
        era_reward_points == eras_reward_points(S, era)
    IN IF nominator_index + 1 <= Len(validator_exposure.others)
       THEN LET nominator_exposure == validator_exposure.others[nominator_index + 1]
                nominator_exposure_part ==
                  from_rational_approximation(nominator_exposure.value,
                                              validator_exposure.total)
                validator_point == Get(era_reward_points.individual, validator, 0)
                validator_point_part ==
                  from_rational_approximation(validator_point, era_reward_points.total)
                r2 == perbill_saturating_add(reward,
                        perbill_saturating_mul(
                          perbill_saturating_mul(validator_point_part,
                            perbill_saturating_sub(Accuracy, commission)),
                          nominator_exposure_part))
            IN nominator_reward_any_owner(S, era, stash, validators, i + 1, r2)
       ELSE nominator_reward_any_owner(S, era, stash, validators, i + 1, reward)

\* The for loop of do_payout_nominator over validators[i..], accumulating
\* the Perbill `reward`.
RECURSIVE nominator_reward(_, _, _, _, _, _)
nominator_reward(S, era, stash, validators, i, reward) ==
  IF i > Len(validators) THEN reward
  ELSE
    LET validator == validators[i][1]
        nominator_index == validators[i][2]
        commission == eras_validator_prefs(S, era, validator).commission
        validator_exposure == eras_stakers_clipped(S, era, validator)
        era_reward_points == eras_reward_points(S, era)
    IN IF nominator_index + 1 <= Len(validator_exposure.others)
       THEN LET nominator_exposure == validator_exposure.others[nominator_index + 1] IN
            IF nominator_exposure.who # stash
            THEN nominator_reward(S, era, stash, validators, i + 1, reward)
            ELSE
              LET nominator_exposure_part ==
                    from_rational_approximation(nominator_exposure.value,
                                                validator_exposure.total)
                  validator_point == Get(era_reward_points.individual, validator, 0)
                  validator_point_part ==
                    from_rational_approximation(validator_point, era_reward_points.total)
                  r2 == perbill_saturating_add(reward,
                          perbill_saturating_mul(
                            perbill_saturating_mul(validator_point_part,
                              perbill_saturating_sub(Accuracy, commission)),
                            nominator_exposure_part))
              IN nominator_reward(S, era, stash, validators, i + 1, r2)
       ELSE nominator_reward(S, era, stash, validators, i + 1, reward)

do_payout_nominator(S, who, era, validators) ==
  IF ~(Len(validators) <= MAX_NOMINATIONS) THEN Fail(S, "InvalidNumberOfNominations")
  ELSE IF era \notin DOMAIN S.ErasValidatorReward THEN Fail(S, "InvalidEraToReward")
  ELSE IF who \notin DOMAIN S.Ledger THEN Fail(S, "NotController")
  ELSE IF already_rewarded(S.Ledger[who], era) THEN Fail(S, "InvalidEraToReward")
  ELSE
    LET era_payout == S.ErasValidatorReward[era]
        nominator_ledger == [S.Ledger[who] EXCEPT !.last_reward = Some(era)]
        S1 == [S EXCEPT !.Ledger = Insert(@, who, nominator_ledger)]
        reward == nominator_reward(S1, era, nominator_ledger.stash, validators, 1, 0)
        amount == perbill_mul_balance(reward, era_payout)
    IN record_claim(make_payout(S1, nominator_ledger.stash, amount),
                    nominator_ledger.stash, era,
                    payout_credit(S1, nominator_ledger.stash, amount))

\* do_payout_validator reading the commission the validator declares now.
do_payout_validator_current_prefs(S, who, era) ==
  IF era \notin DOMAIN S.ErasValidatorReward THEN Fail(S, "InvalidEraToReward")
  ELSE IF who \notin DOMAIN S.Ledger THEN Fail(S, "NotController")
  ELSE IF already_rewarded(S.Ledger[who], era) THEN Fail(S, "InvalidEraToReward")
  ELSE
    LET era_payout == S.ErasValidatorReward[era]
        ledger == [S.Ledger[who] EXCEPT !.last_reward = Some(era)]
        S1 == [S EXCEPT !.Ledger = Insert(@, who, ledger)]
        era_reward_points == eras_reward_points(S1, era)
        commission == Get(S1.Validators, ledger.stash, [commission |-> 0]).commission
        exposure == eras_stakers(S1, era, ledger.stash)
        exposure_part == from_rational_approximation(exposure.own, exposure.total)
        validator_point == Get(era_reward_points.individual, ledger.stash, 0)
        validator_point_part ==
          from_rational_approximation(validator_point, era_reward_points.total)
        reward == perbill_saturating_mul(validator_point_part,
                    perbill_saturating_add(commission,
                      perbill_saturating_mul(
                        perbill_saturating_sub(Accuracy, commission), exposure_part)))
        amount == perbill_mul_balance(reward, era_payout)
    IN record_claim(make_payout(S1, ledger.stash, amount), ledger.stash, era,
                    payout_credit(S1, ledger.stash, amount))

do_payout_validator(S, who, era) ==
  IF era \notin DOMAIN S.ErasValidatorReward THEN Fail(S, "InvalidEraToReward")
  ELSE IF who \notin DOMAIN S.Ledger THEN Fail(S, "NotController")
  ELSE IF already_rewarded(S.Ledger[who], era) THEN Fail(S, "InvalidEraToReward")
  ELSE
    LET era_payout == S.ErasValidatorReward[era]
        ledger == [S.Ledger[who] EXCEPT !.last_reward = Some(era)]
        S1 == [S EXCEPT !.Ledger = Insert(@, who, ledger)]
        era_reward_points == eras_reward_points(S1, era)
        commission == eras_validator_prefs(S1, era, ledger.stash).commission
        exposure == eras_stakers(S1, era, ledger.stash)
        exposure_part == from_rational_approximation(exposure.own, exposure.total)
        validator_point == Get(era_reward_points.individual, ledger.stash, 0)
        validator_point_part ==
          from_rational_approximation(validator_point, era_reward_points.total)
        reward == perbill_saturating_mul(validator_point_part,
                    perbill_saturating_add(commission,
                      perbill_saturating_mul(
                        perbill_saturating_sub(Accuracy, commission), exposure_part)))
        amount == perbill_mul_balance(reward, era_payout)
    IN record_claim(make_payout(S1, ledger.stash, amount), ledger.stash, era,
                    payout_credit(S1, ledger.stash, amount))

\* The loop of reward_by_ids storing the points of an entry as the
\* validator's points, instead of adding them.
RECURSIVE add_points_overwrites(_, _, _)
add_points_overwrites(era_rewards, validators_points, i) ==
  IF i > Len(validators_points) THEN era_rewards
  ELSE LET validator == validators_points[i][1]
           points == validators_points[i][2]
       IN add_points_overwrites(
            [total |-> era_rewards.total + points,
             individual |-> Insert(era_rewards.individual, validator, points)],
            validators_points, i + 1)

\* reward_by_ids
RECURSIVE add_points(_, _, _)
add_points(era_rewards, validators_points, i) ==
  IF i > Len(validators_points) THEN era_rewards
  ELSE LET validator == validators_points[i][1]
           points == validators_points[i][2]
       IN add_points(
            [total |-> era_rewards.total + points,
             individual |-> Insert(era_rewards.individual, validator,
                                   Get(era_rewards.individual, validator, 0) + points)],
            validators_points, i + 1)

reward_by_ids(S, validators_points) ==
  IF IsSome(S.ActiveEra)
  THEN LET e == Unwrap(S.ActiveEra).index IN
       [S EXCEPT !.ErasRewardPoints =
          Insert(@, e, add_points(Get(@, e, DefaultRewardPoints), validators_points, 1))]
  ELSE S

(***************************************************************************)
(* Slashing (module slashing of the pallet).                               *)
(***************************************************************************)
\* REWARD_F1 of slashing: half of the remaining bounty is paid per report.
REWARD_F1 == Accuracy \div 2

UnappliedSlash(id, validator, own, others, reporters, payout) ==
  [id |-> id, validator |-> validator, own |-> own, others |-> others,
   reporters |-> reporters, payout |-> payout]

\* SlashingSpans::new(window_start)
NewSpans(window_start) ==
  [span_index |-> 0, last_start |-> window_start, last_nonzero_slash |-> 0,
   prior |-> <<>>]
DefaultSpanRecord == [slashed |-> 0, paid_out |-> 0]

\* SlashingSpans::era_span: index of the span that holds `era`, None if the
\* era is before every recorded span.
RECURSIVE prior_span(_, _, _, _, _)
prior_span(prior, k, start_after, index, era) ==
  IF k > Len(prior) THEN None
  ELSE LET start == start_after - prior[k] IN
       IF era >= start THEN Some(index)
       ELSE prior_span(prior, k + 1, start, index - 1, era)

era_span(spans, era) ==
  IF era >= spans.last_start THEN Some(spans.span_index)
  ELSE prior_span(spans.prior, 1, spans.last_start, spans.span_index - 1, era)

\* SlashingSpans::end_span(now)
end_span(spans, now) ==
  LET next_start == now + 1 IN
  IF next_start <= spans.last_start THEN spans
  ELSE [spans EXCEPT !.prior = <<next_start - spans.last_start>> \o @,
                     !.last_start = next_start,
                     !.span_index = @ + 1]

\* Module::ensure_new_era
ensure_new_era(S) ==
  IF S.ForceEra \in {"ForceAlways", "ForceNew"} THEN S
  ELSE [S EXCEPT !.ForceEra = "ForceNew"]

\* InspectingSpans::compare_and_update_span_slash for the span `target` of
\* the slash era, with its record rec0: the span record after the slash,
\* the amount still to slash, the bounty, the spans after
\* bump_last_nonzero_slash and end_span, and whether the slash is in the
\* current span.
span_slash(spans0, target, rec0, own_slash, slash_era, now, reward_proportion) ==
  LET higher == IsSome(target) /\ rec0.slashed < own_slash
      equal == IsSome(target) /\ rec0.slashed = own_slash
  IN Bind(IF higher \/ equal
          THEN perbill_mul_balance(REWARD_F1,
                 SatSub(perbill_mul_balance(reward_proportion, own_slash), rec0.paid_out))
          ELSE 0, LAMBDA reward :
     Bind(IF higher THEN [spans0 EXCEPT !.last_nonzero_slash = Max(@, slash_era)]
          ELSE spans0, LAMBDA spans1 :
     Bind(IsSome(target) /\ Unwrap(target) = spans1.span_index, LAMBDA current :
       [rec |-> [slashed |-> IF higher THEN own_slash ELSE rec0.slashed,
                 paid_out |-> rec0.paid_out + reward],
        difference |-> IF higher THEN own_slash - rec0.slashed ELSE 0,
        reward |-> reward,
        changed |-> IsSome(target) /\ (higher \/ reward > 0),
        spans |-> IF current THEN end_span(spans1, now) ELSE spans1,
        current |-> current])))

\* slashing::compute_slash for the validator's own stake; `disable` is the
\* answer of SessionInterface::disable_validator.  Returns the storage with
\* ret = Some(unapplied slash) or None.  The slash names the nominators of
\* the exposure with their part of the fraction; their spans are not kept.
compute_slash(S0, stash, slash, exposure, slash_era, window_start, now, reward_proportion, disable) ==
  Bind(S0, LAMBDA S :
  Bind(perbill_mul_balance(slash, exposure.own), LAMBDA own_slash :
  IF perbill_mul_balance(slash, exposure.total) = 0 THEN [S EXCEPT !.ret = None]
  ELSE IF ~(slash > Get(Get(S.ValidatorSlashInEra, slash_era, EmptyMap), stash,
                        [p |-> 0, v |-> 0]).p)
       THEN [S EXCEPT !.ret = None]
  ELSE
    Bind(Get(S.SlashingSpans, stash, NewSpans(window_start)), LAMBDA spans0 :
    Bind(era_span(spans0, slash_era), LAMBDA target :
    Bind(span_slash(spans0, target,
           IF IsSome(target)
           THEN Get(Get(S.SpanSlash, stash, EmptyMap), Unwrap(target), DefaultSpanRecord)
           ELSE DefaultSpanRecord,
           own_slash, slash_era, now, reward_proportion), LAMBDA r :
    Bind([S EXCEPT
            !.ValidatorSlashInEra =
               Insert(@, slash_era, Insert(Get(@, slash_era, EmptyMap), stash,
                                           [p |-> slash, v |-> own_slash])),
            !.SlashingSpans = Insert(@, stash, r.spans),
            !.SpanSlash = IF r.changed
                          THEN Insert(@, stash,
                                 Insert(Get(@, stash, EmptyMap), Unwrap(target), r.rec))
                          ELSE @,
            !.ret = Some(UnappliedSlash(0, stash, r.difference,
                     [k \in 1..Len(exposure.others) |->
                        <<exposure.others[k].who,
                          perbill_mul_balance(slash, exposure.others[k].value)>>],
                     <<>>, r.reward))],
         LAMBDA S2 :
    Bind(IF r.current THEN chill_stash(S2, stash) ELSE S2, LAMBDA S3 :
      IF r.current /\ disable THEN ensure_new_era(S3) ELSE S3)))))))

\* slashing::do_slash; returns [S, slashed, missing].
do_slash(S, stash, value) ==
  IF stash \notin DOMAIN S.Bonded \/ S.Bonded[stash] \notin DOMAIN S.Ledger
  THEN [S |-> S, slashed |-> 0, missing |-> 0]
  ELSE
    Bind(ledger_slash(S.Ledger[S.Bonded[stash]], value, S.minimum_balance), LAMBDA r :
      IF r.slashed = 0 THEN [S |-> S, slashed |-> 0, missing |-> 0]
      ELSE [S |-> update_ledger(currency_slash(S, stash, r.slashed),
                                S.Bonded[stash], r.ledger),
            slashed |-> Min(r.slashed, S.free[stash]),
            missing |-> SatSub(r.slashed, S.free[stash])])

\* slashing::pay_reporters: the bounty, at most what was slashed, is split
\* evenly among the reporters; the rest goes to T::Slash (the treasury).
RECURSIVE pay_each(_, _, _, _)
pay_each(S, reporters, i, amount) ==
  IF i > Len(reporters) THEN S
  ELSE pay_each([S EXCEPT !.free[reporters[i]] = @ + amount], reporters, i + 1, amount)

pay_reporters(S, reward_payout, slashed, reporters) ==
  IF reward_payout = 0 \/ reporters = <<>> THEN S
  ELSE pay_each(S, reporters, 1, Min(slashed, reward_payout) \div Len(reporters))

\* slashing::apply_slash (the slash carries no nominator entries: on_offence
\* empties `others`).  Records the application of the slash identifier.
apply_slash(S, unapplied) ==
  Bind(do_slash(S, unapplied.validator, unapplied.own), LAMBDA d :
    [pay_reporters(d.S, SatSub(unapplied.payout, d.missing), d.slashed,
                   unapplied.reporters)
       EXCEPT !.slashlog.applied = @ \o <<unapplied.id>>])

RECURSIVE apply_all(_, _, _)
apply_all(S, slashes, i) ==
  IF i > Len(slashes) THEN S
  ELSE apply_all(apply_slash(S, slashes[i]), slashes, i + 1)

\* The loop taking every era's queue out of storage without applying it.
RECURSIVE apply_eras_drops(_, _, _)
apply_eras_drops(S, era, keep_from) ==
  IF era >= keep_from THEN S
  ELSE apply_eras_drops([S EXCEPT !.UnappliedSlashes = Remove(@, era)], era + 1, keep_from)

\* The loop `for era in (*earliest)..keep_from` of apply_unapplied_slashes.
RECURSIVE apply_eras(_, _, _)
apply_eras(S, era, keep_from) ==
  IF era >= keep_from THEN S
  ELSE LET era_slashes == Get(S.UnappliedSlashes, era, <<>>)
           S1 == [S EXCEPT !.UnappliedSlashes = Remove(@, era)]
       IN apply_eras(apply_all(S1, era_slashes, 1), era + 1, keep_from)

\* apply_unapplied_slashes without the deferral: every queue before the
\* active era is applied.
apply_unapplied_slashes_undeferred(S, active_era) ==
  IF IsSome(S.EarliestUnappliedSlash)
  THEN LET earliest == Unwrap(S.EarliestUnappliedSlash)
           S1 == apply_eras(S, earliest, active_era)
       IN [S1 EXCEPT !.EarliestUnappliedSlash = Some(Max(earliest, active_era))]
  ELSE S

apply_unapplied_slashes(S, active_era) ==
  IF IsSome(S.EarliestUnappliedSlash)
  THEN LET earliest == Unwrap(S.EarliestUnappliedSlash)
           keep_from == SatSub(active_era, S.SlashDeferDuration)
           S1 == apply_eras(S, earliest, keep_from)
       IN [S1 EXCEPT !.EarliestUnappliedSlash = Some(Max(earliest, keep_from))]
  ELSE S

\* The slash era of a report for `slash_session`: None when the session is
\* before the bonding period.
RECURSIVE latest_bonded(_, _, _)
latest_bonded(eras, k, slash_session) ==
  IF k < 1 THEN None
  ELSE IF eras[k][2] <= slash_session THEN Some(eras[k][1])
  ELSE latest_bonded(eras, k - 1, slash_session)

\* The loop of on_offence without the test of Invulnerables.
RECURSIVE offence_loop_slashes_invulnerables(_, _, _, _, _, _)
offence_loop_slashes_invulnerables(S0, offenders, i, active_era, slash_era, window_start) ==
  Bind(S0, LAMBDA S :
  IF i > Len(offenders) THEN S
  ELSE
    LET o == offenders[i] IN
      Bind(compute_slash(S, o.stash, o.fraction, o.exposure, slash_era,
                         window_start, active_era, S.SlashRewardFraction, o.disable),
           LAMBDA S1 :
        IF IsSome(S1.ret)
        THEN Bind([Unwrap(S1.ret) EXCEPT !.reporters = o.reporters,
                                         !.others = <<>>,
                                         !.id = S1.slashlog.next], LAMBDA unapplied :
             Bind([S1 EXCEPT !.slashlog.next = @ + 1, !.ret = None], LAMBDA S2 :
               offence_loop_slashes_invulnerables(
                 IF S2.SlashDeferDuration = 0
                 THEN apply_slash(S2, unapplied)
                 ELSE [S2 EXCEPT
                         !.UnappliedSlashes =
                            Insert(@, active_era, Append(Get(@, active_era, <<>>), unapplied)),
                         !.slashlog.queued = @ \cup {<<unapplied.id, active_era>>}],
                 offenders, i + 1, active_era, slash_era, window_start)))
        ELSE offence_loop_slashes_invulnerables([S1 EXCEPT !.ret = None], offenders, i + 1,
                          active_era, slash_era, window_start)))

\* The loop of on_offence over the offenders.  An offender is
\* [stash, exposure, reporters, fraction, disable].
RECURSIVE offence_loop(_, _, _, _, _, _)
offence_loop(S0, offenders, i, active_era, slash_era, window_start) ==
  Bind(S0, LAMBDA S :
  IF i > Len(offenders) THEN S
  ELSE
    LET o == offenders[i] IN
    IF o.stash \in S.Invulnerables
    THEN offence_loop(S, offenders, i + 1, active_era, slash_era, window_start)
    ELSE
      Bind(compute_slash(S, o.stash, o.fraction, o.exposure, slash_era,
                         window_start, active_era, S.SlashRewardFraction, o.disable),
           LAMBDA S1 :
        IF IsSome(S1.ret)
        THEN Bind([Unwrap(S1.ret) EXCEPT !.reporters = o.reporters,
                                         !.others = <<>>,
                                         !.id = S1.slashlog.next], LAMBDA unapplied :
             Bind([S1 EXCEPT !.slashlog.next = @ + 1, !.ret = None], LAMBDA S2 :
               offence_loop(
                 IF S2.SlashDeferDuration = 0
                 THEN apply_slash(S2, unapplied)
                 ELSE [S2 EXCEPT
                         !.UnappliedSlashes =
                            Insert(@, active_era, Append(Get(@, active_era, <<>>), unapplied)),
                         !.slashlog.queued = @ \cup {<<unapplied.id, active_era>>}],
                 offenders, i + 1, active_era, slash_era, window_start)))
        ELSE offence_loop([S1 EXCEPT !.ret = None], offenders, i + 1,
                          active_era, slash_era, window_start)))

on_offence(S, offenders, slash_session) ==
  IF IsNone(S.ActiveEra) THEN S
  ELSE
    LET active_era == Unwrap(S.ActiveEra).index
        active_era_start_session_index == Get(S.ErasStartSessionIndex, active_era, 0)
        window_start == SatSub(active_era, BondingDuration)
        slash_era == IF slash_session >= active_era_start_session_index
                     THEN Some(active_era)
                     ELSE latest_bonded(S.BondedEras, Len(S.BondedEras), slash_session)
    IN IF IsNone(slash_era) THEN S
       ELSE LET S1 == IF IsNone(S.EarliestUnappliedSlash)
                      THEN [S EXCEPT !.EarliestUnappliedSlash = Some(active_era)]
                      ELSE S
            IN offence_loop(S1, offenders, 1, active_era, Unwrap(slash_era), window_start)

\* cancel_deferred_slash: the loop over the sorted indices; returns
\* [err, unapplied].
RECURSIVE cancel_loop(_, _, _)
cancel_loop(unapplied, sorted, removed) ==
  IF removed + 1 > Len(sorted) THEN [err |-> "Ok", unapplied |-> unapplied]
  ELSE
    LET index0 == sorted[removed + 1] IN
    IF ~(removed <= index0) THEN [err |-> "DuplicateIndex", unapplied |-> unapplied]
    ELSE LET index == index0 - removed IN
         IF ~(index < Len(unapplied))
         THEN [err |-> "InvalidSlashIndex", unapplied |-> unapplied]
         ELSE cancel_loop(SubSeq(unapplied, 1, index) \o
                            SubSeq(unapplied, index + 2, Len(unapplied)),
                          sorted, removed + 1)

\* slash_indices.sort_unstable() on integers: insertion sort.
RECURSIVE SortAsc(_)
SortAsc(s) ==
  IF s = <<>> THEN <<>>
  ELSE LET rest == SortAsc(Tail(s))
           x == Head(s)
           lower == SelectSeq(rest, LAMBDA y : y <= x)
           upper == SelectSeq(rest, LAMBDA y : y > x)
       IN lower \o <<x>> \o upper

\* cancel_deferred_slash storing the list after every removal.
cancel_deferred_slash_stores_each(S, origin, era, slash_indices) ==
  IF ~ensure_root_origin(origin) THEN Fail(S, "NotAuthorised")
  ELSE
    LET unapplied == Get(S.UnappliedSlashes, era, <<>>)
        r == cancel_loop(unapplied, SortAsc(slash_indices), 0)
    IN [S EXCEPT
          !.UnappliedSlashes = Insert(@, era, r.unapplied),
          !.slashlog.cancelled =
             @ \cup ({unapplied[k].id : k \in 1..Len(unapplied)}
                       \ {r.unapplied[k].id : k \in 1..Len(r.unapplied)}),
          !.err = r.err]

cancel_deferred_slash(S, origin, era, slash_indices) ==
  IF ~ensure_root_origin(origin) THEN Fail(S, "NotAuthorised")
  ELSE
    LET unapplied == Get(S.UnappliedSlashes, era, <<>>)
        r == cancel_loop(unapplied, SortAsc(slash_indices), 0)
    IN IF r.err # "Ok" THEN Fail(S, r.err)
       ELSE [S EXCEPT
               !.UnappliedSlashes = Insert(@, era, r.unapplied),
               !.slashlog.cancelled =
                  @ \cup ({unapplied[k].id : k \in 1..Len(unapplied)}
                            \ {r.unapplied[k].id : k \in 1..Len(r.unapplied)})]

(***************************************************************************)
(* Election (select_validators around sp_phragmen::elect).                 *)
(***************************************************************************)
\* Enumeration order of the linked maps, fixed in the model.
AccountOrder == <<"v1", "v2", "v3", "n1", "n2", "c1">>
OrderedSeq(set) == SelectSeq(AccountOrder, LAMBDA a : a \in set)

\* CurrencyToVote: balance -> u64 vote weight and back.  The handler divides
\* and multiplies by max(total_issuance / u64::MAX, 1), which is 1 for every
\* issuance of the model.
vote_factor == Max(0, 1)
to_votes(b) == b \div vote_factor
to_balance(e) == e * vote_factor

refresh_compliance_statuses(S) ==
  [S EXCEPT !.PermissionedValidators =
     [a \in DOMAIN @ |->
        IF is_validator_or_nominator_compliant(S, a) THEN "Active" ELSE "Pending"]]

is_active_balance_above_min_bond(S, who) ==
  /\ who \in DOMAIN S.Bonded
  /\ S.Bonded[who] \in DOMAIN S.Ledger
  /\ S.Ledger[S.Bonded[who]].active >= S.MinimumBondThreshold

is_validator_cdd_compliant(S, who) ==
  /\ who \in DOMAIN S.PermissionedValidators
  /\ S.PermissionedValidators[who] = "Active"

slashable_balance_of(S, stash) ==
  IF stash \in DOMAIN S.Bonded /\ S.Bonded[stash] \in DOMAIN S.Ledger
  THEN S.Ledger[S.Bonded[stash]].active ELSE 0

\* The candidate filter without the compliance test: every registered
\* validator with enough bond is a candidate.
all_validators_unchecked(S) ==
  {v \in DOMAIN S.Validators : is_active_balance_above_min_bond(S, v)}

\* The validators that pass the filter of select_validators (S refreshed).
all_validators(S) ==
  {v \in DOMAIN S.Validators :
     is_active_balance_above_min_bond(S, v) /\ is_validator_cdd_compliant(S, v)}

\* The nominator votes: compliant nominators with their targets filtered by
\* the most recent non-zero slash of each target.
nominator_targets(S, n) ==
  SelectSeq(S.Nominators[n].targets,
    LAMBDA t : t \notin DOMAIN S.SlashingSpans
               \/ S.Nominators[n].submitted_in >= S.SlashingSpans[t].last_nonzero_slash)

nominator_voters(S) ==
  {n \in DOMAIN S.Nominators : is_validator_or_nominator_compliant(S, n)}

\* sp_phragmen::elect fails exactly when there are fewer candidates than
\* minimum_candidate_count.
elect_fails(S, candidates) ==
  Cardinality(candidates) < Max(S.MinimumValidatorCount, 1)

elected_targets(S, n, winners) ==
  SelectSeq(nominator_targets(S, n), LAMBDA t : t \in winners)

\* The outcomes sp_phragmen::elect may produce: the winners are
\* min(validator_count, number of candidates) of the candidates; every voter
\* with an elected target spreads its whole budget over its elected targets.
\* Which candidates win and how a budget is split is the choice of the
\* sequential Phragmen rounds; the model admits every set of winners and,
\* per voter, either everything on one elected target (pick = its position)
\* or an even split (pick = 0).
ElectionChoices(S0) ==
  LET S == refresh_compliance_statuses(S0)
      candidates == all_validators(S)
      to_elect == Min(S.ValidatorCount, Cardinality(candidates))
  IN {ch \in [winners : SUBSET candidates, pick : [nominator_voters(S) -> 0..2]] :
        /\ Cardinality(ch.winners) = to_elect
        /\ \A n \in nominator_voters(S) :
             ch.pick[n] > 0 => ch.pick[n] <= Len(elected_targets(S, n, ch.winners))
                               /\ Len(elected_targets(S, n, ch.winners)) > 1}

\* The stake a voter assigns to winner c under a choice (Perbill ratio times
\* the voter's vote weight, as build_support_map computes it).
assigned_ratio(S, n, c, choice) ==
  LET et == elected_targets(S, n, choice.winners)
      pick == choice.pick[n]
  IN IF c \notin SeqToSet(et) THEN 0
     ELSE IF pick = 0 \/ pick > Len(et)
          THEN \* even split, the leftover of the division to the first target
               (Accuracy \div Len(et))
                 + (IF et[1] = c THEN Accuracy - Len(et) * (Accuracy \div Len(et)) ELSE 0)
          ELSE IF et[pick] = c THEN Accuracy ELSE 0

\* Support of winner c: the sequence of (who, value) in voter order, the
\* self-vote first.
support_voters(S, c, choice) ==
  LET noms == SelectSeq(OrderedSeq(nominator_voters(S)),
                LAMBDA n : c \in SeqToSet(elected_targets(S, n, choice.winners)))
  IN <<[who |-> c, value |-> to_votes(slashable_balance_of(S, c))]>> \o
     [k \in 1..Len(noms) |->
        [who |-> noms[k],
         value |-> perbill_mul_balance(assigned_ratio(S, noms[k], c, choice),
                                       to_votes(slashable_balance_of(S, noms[k])))]]

\* The fold with `total` accumulated for the validator's own vote only.
RECURSIVE build_exposure_own_total(_, _, _, _)
build_exposure_own_total(c, voters, k, acc) ==
  IF k > Len(voters) THEN acc
  ELSE build_exposure_own_total(c, voters, k + 1,
         IF voters[k].who = c
         THEN [acc EXCEPT !.own = @ + to_balance(voters[k].value),
                          !.total = @ + to_balance(voters[k].value)]
         ELSE [acc EXCEPT !.others =
                 Append(@, IndividualExposure(voters[k].who, to_balance(voters[k].value)))])

\* The fold of select_validators that builds an Exposure from a support.
RECURSIVE build_exposure(_, _, _, _)
build_exposure(c, voters, k, acc) ==
  IF k > Len(voters) THEN acc
  ELSE LET who == voters[k].who
           value == to_balance(voters[k].value)
       IN build_exposure(c, voters, k + 1,
            IF who = c
            THEN [acc EXCEPT !.own = @ + value, !.total = @ + value]
            ELSE [acc EXCEPT !.others = Append(@, IndividualExposure(who, value)),
                             !.total = @ + value])

\* sort_unstable_by(value, reversed): largest value first.
RECURSIVE SortByValueDesc(_)
SortByValueDesc(s) ==
  IF s = <<>> THEN <<>>
  ELSE LET rest == SortByValueDesc(Tail(s))
           x == Head(s)
           higher == SelectSeq(rest, LAMBDA y : y.value >= x.value)
           lower == SelectSeq(rest, LAMBDA y : y.value < x.value)
       IN higher \o <<x>> \o lower

clip_exposure(exposure) ==
  IF Len(exposure.others) > MaxNominatorRewardedPerValidator
  THEN [exposure EXCEPT !.others =
          SubSeq(SortByValueDesc(@), 1, MaxNominatorRewardedPerValidator)]
  ELSE exposure

\* select_validators(current_era) under an election choice; ret is the
\* Option of the elected stashes.
select_validators(S0, current_era, choice) ==
  LET S == refresh_compliance_statuses(S0)
      candidates == all_validators(S)
  IN IF elect_fails(S, candidates) THEN [S EXCEPT !.ret = None]
     ELSE
       LET elected == choice.winners
           exposure_of == [c \in elected |->
              build_exposure(c, support_voters(S, c, choice), 1, DefaultExposure)]
       IN [S EXCEPT
             !.ErasStakers = Insert(@, current_era,
                [c \in DOMAIN Get(@, current_era, EmptyMap) \cup elected |->
                   IF c \in elected THEN exposure_of[c] ELSE @[current_era][c]]),
             !.ErasStakersClipped = Insert(@, current_era,
                [c \in DOMAIN Get(@, current_era, EmptyMap) \cup elected |->
                   IF c \in elected THEN clip_exposure(exposure_of[c])
                   ELSE @[current_era][c]]),
             !.ErasTotalStake = Insert(@, current_era,
                SumFn([c \in elected |-> exposure_of[c].total], elected)),
             !.ErasValidatorPrefs = Insert(@, current_era,
                [c \in DOMAIN Get(@, current_era, EmptyMap) \cup elected |->
                   IF c \in elected THEN S.Validators[c] ELSE @[current_era][c]]),
             !.ret = Some(elected)]

(***************************************************************************)
(* Era/session scheduler.                                                  *)
(***************************************************************************)
ActiveEraInfo(index, start) == [index |-> index, start |-> start]

clear_era_information(S, era_index) ==
  [S EXCEPT !.ErasStakers = Remove(@, era_index),
            !.ErasStakersClipped = Remove(@, era_index),
            !.ErasValidatorPrefs = Remove(@, era_index),
            !.ErasValidatorReward = Remove(@, era_index),
            !.ErasRewardPoints = Remove(@, era_index),
            !.ErasTotalStake = Remove(@, era_index),
            !.ErasStartSessionIndex = Remove(@, era_index)]

\* new_era that does not record the start session of the era it plans.
new_era_records_no_start(S, start_session_index, choice) ==
  LET current_era == IF IsSome(S.CurrentEra) THEN Unwrap(S.CurrentEra) + 1 ELSE 0
      S1 == [S EXCEPT !.CurrentEra = Some(current_era)]
      S2 == IF current_era >= S1.HistoryDepth + 1
            THEN clear_era_information(S1, current_era - (S1.HistoryDepth + 1))
            ELSE S1
  IN select_validators(S2, current_era, choice)

\* new_era that plans no era when the election has no result.
new_era_waits_for_election(S, start_session_index, choice) ==
  LET current_era == IF IsSome(S.CurrentEra) THEN Unwrap(S.CurrentEra) + 1 ELSE 0
      S1 == [S EXCEPT !.CurrentEra = Some(current_era),
                      !.ErasStartSessionIndex = Insert(@, current_era, start_session_index)]
      S2 == IF current_era >= S1.HistoryDepth + 1
            THEN clear_era_information(S1, current_era - (S1.HistoryDepth + 1))
            ELSE S1
      R == select_validators(S2, current_era, choice)
  IN IF IsNone(R.ret) THEN [S EXCEPT !.ret = None] ELSE R

new_era(S, start_session_index, choice) ==
  LET current_era == IF IsSome(S.CurrentEra) THEN Unwrap(S.CurrentEra) + 1 ELSE 0
      S1 == [S EXCEPT !.CurrentEra = Some(current_era),
                      !.ErasStartSessionIndex = Insert(@, current_era, start_session_index)]
      S2 == IF current_era >= S1.HistoryDepth + 1
            THEN clear_era_information(S1, current_era - (S1.HistoryDepth + 1))
            ELSE S1
  IN select_validators(S2, current_era, choice)

\* new_session whose ForceNew arm plans the era and keeps ForceEra.
new_session_force_new_kept(S, session_index, choice) ==
  IF IsSome(S.CurrentEra)
  THEN
    LET era_length == SatSub(session_index,
                             Get(S.ErasStartSessionIndex, Unwrap(S.CurrentEra), 0))
    IN CASE S.ForceEra \in {"ForceNew", "ForceAlways"} -> new_era(S, session_index, choice)
         [] S.ForceEra = "NotForcing" /\ era_length >= SessionsPerEra ->
              new_era(S, session_index, choice)
         [] OTHER -> [S EXCEPT !.ret = None]
  ELSE new_era(S, session_index, choice)

\* new_session that waits for the era length to exceed SessionsPerEra.
new_session_era_length_exceeded(S, session_index, choice) ==
  IF IsSome(S.CurrentEra)
  THEN
    LET era_length == SatSub(session_index,
                             Get(S.ErasStartSessionIndex, Unwrap(S.CurrentEra), 0))
    IN CASE S.ForceEra = "ForceNew" ->
              new_era([S EXCEPT !.ForceEra = "NotForcing"], session_index, choice)
         [] S.ForceEra = "ForceAlways" -> new_era(S, session_index, choice)
         [] S.ForceEra = "NotForcing" /\ era_length > SessionsPerEra ->
              new_era(S, session_index, choice)
         [] OTHER -> [S EXCEPT !.ret = None]
  ELSE new_era(S, session_index, choice)

\* new_session with the forcing match broken: ForceNone is taken for
\* NotForcing, so an era whose length is reached advances.
new_session_none_as_not_forcing(S, session_index, choice) ==
  IF IsSome(S.CurrentEra)
  THEN
    LET era_length == SatSub(session_index,
                             Get(S.ErasStartSessionIndex, Unwrap(S.CurrentEra), 0))
    IN CASE S.ForceEra = "ForceNew" ->
              new_era([S EXCEPT !.ForceEra = "NotForcing"], session_index, choice)
         [] S.ForceEra = "ForceAlways" -> new_era(S, session_index, choice)
         [] S.ForceEra \in {"NotForcing", "ForceNone"} /\ era_length >= SessionsPerEra ->
              new_era(S, session_index, choice)
         [] OTHER -> [S EXCEPT !.ret = None]
  ELSE new_era(S, session_index, choice)

new_session(S, session_index, choice) ==
  IF IsSome(S.CurrentEra)
  THEN
    LET current_era == Unwrap(S.CurrentEra)
        current_era_start_session_index == Get(S.ErasStartSessionIndex, current_era, 0)
        era_length == SatSub(session_index, current_era_start_session_index)
    IN CASE S.ForceEra = "ForceNew" ->
              new_era([S EXCEPT !.ForceEra = "NotForcing"], session_index, choice)
         [] S.ForceEra = "ForceAlways" -> new_era(S, session_index, choice)
         [] S.ForceEra = "NotForcing" /\ era_length >= SessionsPerEra ->
              new_era(S, session_index, choice)
         [] OTHER -> [S EXCEPT !.ret = None]
  ELSE new_era(S, session_index, choice)

\* slashing::clear_era_metadata
clear_era_metadata(S, era) ==
  [S EXCEPT !.ValidatorSlashInEra = Remove(@, era)]

RECURSIVE prune_bonded(_, _, _)
prune_bonded(S, bonded, first_kept) ==
  IF bonded # <<>> /\ bonded[1][1] < first_kept
  THEN prune_bonded(clear_era_metadata(S, bonded[1][1]), Tail(bonded), first_kept)
  ELSE [S EXCEPT !.BondedEras = bonded]

\* start_era pruning the eras up to and including the first kept one.
start_era_prunes_first_kept(S, start_session) ==
  LET new_index == IF IsSome(S.ActiveEra) THEN Unwrap(S.ActiveEra).index + 1 ELSE 0
      S1 == [S EXCEPT !.ActiveEra = Some(ActiveEraInfo(new_index, None))]
      bonded == Append(S1.BondedEras, <<new_index, start_session>>)
      S2 == IF new_index > BondingDuration
            THEN prune_bonded(S1, bonded, new_index - BondingDuration + 1)
            ELSE [S1 EXCEPT !.BondedEras = bonded]
  IN apply_unapplied_slashes(S2, new_index)

start_era(S, start_session) ==
  LET new_index == IF IsSome(S.ActiveEra) THEN Unwrap(S.ActiveEra).index + 1 ELSE 0
      S1 == [S EXCEPT !.ActiveEra = Some(ActiveEraInfo(new_index, None))]
      bonded == Append(S1.BondedEras, <<new_index, start_session>>)
      S2 == IF new_index > BondingDuration
            THEN prune_bonded(S1, bonded, new_index - BondingDuration)
            ELSE [S1 EXCEPT !.BondedEras = bonded]
  IN apply_unapplied_slashes(S2, new_index)

start_session(S, start_session_idx) ==
  LET next_active_era == IF IsSome(S.ActiveEra) THEN Unwrap(S.ActiveEra).index + 1 ELSE 0 IN
  IF next_active_era \in DOMAIN S.ErasStartSessionIndex
  THEN \* the era starts both when its start session is this one and when
       \* it was skipped (the arm that "should never happen")
       IF S.ErasStartSessionIndex[next_active_era] <= start_session_idx
       THEN start_era(S, start_session_idx)
       ELSE S
  ELSE S

\* end_era: `total_payout` is the value of inflation::compute_total_payout
\* for the era's stake, the issuance and the era duration.
end_era(S, active_era, total_payout) ==
  IF IsSome(active_era.start)
  THEN [S EXCEPT !.ErasValidatorReward = Insert(@, active_era.index, total_payout)]
  ELSE S

\* end_session ending the active era at the end of every session.
end_session_every_session(S, session_index, total_payout) ==
  IF IsSome(S.ActiveEra)
  THEN end_era(S, Unwrap(S.ActiveEra), total_payout)
  ELSE S

end_session(S, session_index, total_payout) ==
  IF IsSome(S.ActiveEra)
  THEN LET active_era == Unwrap(S.ActiveEra) IN
       IF active_era.index + 1 \in DOMAIN S.ErasStartSessionIndex
          /\ S.ErasStartSessionIndex[active_era.index + 1] = session_index + 1
       THEN end_era(S, active_era, total_payout)
       ELSE S
  ELSE S

\* on_finalize stamping the active era in every block.
on_finalize_always_sets(S, now) ==
  IF IsSome(S.ActiveEra)
  THEN [S EXCEPT !.ActiveEra = Some(ActiveEraInfo(Unwrap(S.ActiveEra).index, Some(now)))]
  ELSE S

\* on_finalize: `now` is T::Time::now().
on_finalize(S, now) ==
  IF IsSome(S.ActiveEra) /\ IsNone(Unwrap(S.ActiveEra).start)
  THEN [S EXCEPT !.ActiveEra = Some(ActiveEraInfo(Unwrap(S.ActiveEra).index, Some(now)))]
  ELSE S

set_history_depth(S, origin, new_history_depth) ==
  IF ~ensure_root_origin(origin) THEN Fail(S, "NotAuthorised")
  ELSE IF IsSome(S.CurrentEra)
       THEN LET current_era == Unwrap(S.CurrentEra)
                last_kept == SatSub(current_era, S.HistoryDepth)
                new_last_kept == SatSub(current_era, new_history_depth)
                cleared == [e \in DOMAIN S.ErasStartSessionIndex |-> 0]
                S1 == [S EXCEPT
                  !.ErasStakers = [e \in DOMAIN @ \ (last_kept..(new_last_kept - 1)) |-> @[e]],
                  !.ErasStakersClipped = [e \in DOMAIN @ \ (last_kept..(new_last_kept - 1)) |-> @[e]],
                  !.ErasValidatorPrefs = [e \in DOMAIN @ \ (last_kept..(new_last_kept - 1)) |-> @[e]],
                  !.ErasValidatorReward = [e \in DOMAIN @ \ (last_kept..(new_last_kept - 1)) |-> @[e]],
                  !.ErasRewardPoints = [e \in DOMAIN @ \ (last_kept..(new_last_kept - 1)) |-> @[e]],
                  !.ErasTotalStake = [e \in DOMAIN @ \ (last_kept..(new_last_kept - 1)) |-> @[e]],
                  !.ErasStartSessionIndex = [e \in DOMAIN @ \ (last_kept..(new_last_kept - 1)) |-> @[e]]]
            IN [S1 EXCEPT !.HistoryDepth = new_history_depth]
       ELSE S

\* ExposureOf::convert
ExposureOf(S, validator) ==
  IF IsSome(S.ActiveEra)
  THEN Some(eras_stakers(S, Unwrap(S.ActiveEra).index, validator))
  ELSE None

(***************************************************************************)
(* Construction: decl_storage defaults and the genesis build.              *)
(***************************************************************************)
\* A genesis configuration: balances and CDD state per account, the config()
\* items of decl_storage, the Trait constants chosen per runtime, and the
\* stakers of add_extra_genesis.
GenesisConfig(balances, cdds, force_era, validator_count, minimum_validator_count, slash_defer_duration, min_bond, stakers) ==
  [balances |-> balances, cdds |-> cdds, force_era |-> force_era,
   validator_count |-> validator_count,
   minimum_validator_count |-> minimum_validator_count,
   slash_defer_duration |-> slash_defer_duration, min_bond |-> min_bond,
   stakers |-> stakers]

Staker(stash, controller, balance, status, votes) ==
  [stash |-> stash, controller |-> controller, balance |-> balance,
   status |-> status, votes |-> votes]

\* Storage before the genesis build: every item at its decl_storage default
\* or its config() value.
DefaultStorage(config) ==
  [free |-> config.balances, locks |-> EmptyMap, minimum_balance |-> 0,
   cdd |-> config.cdds,
   HistoryDepth |-> DefaultHistoryDepth, ValidatorCount |-> config.validator_count,
   MinimumValidatorCount |-> config.minimum_validator_count,
   Invulnerables |-> {},
   Bonded |-> EmptyMap, Ledger |-> EmptyMap, Payee |-> EmptyMap,
   Validators |-> EmptyMap, Nominators |-> EmptyMap,
   CurrentEra |-> None, ActiveEra |-> None, ErasStartSessionIndex |-> EmptyMap,
   ErasStakers |-> EmptyMap, ErasStakersClipped |-> EmptyMap,
   ErasValidatorPrefs |-> EmptyMap,
   ErasValidatorReward |-> EmptyMap, ErasRewardPoints |-> EmptyMap,
   ErasTotalStake |-> EmptyMap, ForceEra |-> config.force_era,
   SlashRewardFraction |-> Accuracy \div 10,
   UnappliedSlashes |-> EmptyMap, BondedEras |-> <<>>,
   ValidatorSlashInEra |-> EmptyMap, SlashingSpans |-> EmptyMap,
   SpanSlash |-> EmptyMap, EarliestUnappliedSlash |-> None,
   PermissionedValidators |-> EmptyMap,
   ValidatorCommission |-> None,
   MinimumBondThreshold |-> config.min_bond,
   SlashDeferDuration |-> config.slash_defer_duration,
   session |-> [pc |-> "genesis", index |-> 0, validators |-> {}, queued |-> {},
                failed |-> {}],
   paid |-> EmptyMap, claims |-> {},
   slashlog |-> [next |-> 0, queued |-> {}, applied |-> <<>>, cancelled |-> {}],
   err |-> "Ok", ret |-> None]

\* The body of the build closure for one staker; results of bond, nominate
\* and add_permissioned_validator are dropped (`let _ =`). The preferences
\* of a validator are the default ones (commission 0), with the commission
\* of config.validator_commission when that is Global.
genesis_staker(S, st) ==
  LET Ok(X) == [X EXCEPT !.err = "Ok"]
      S1 == Ok(bond(S, st.stash, st.controller, st.balance, "Staked"))
      commission == UnwrapOr(S.ValidatorCommission, 0)
  IN CASE st.status = "Validator" ->
            Ok(add_permissioned_validator(Ok(validate(S1, st.controller, commission)),
                                          "Root", st.stash))
       [] st.status = "Nominator" -> Ok(nominate(S1, st.controller, st.votes))
       [] OTHER -> S1

RECURSIVE genesis_build(_, _, _)
genesis_build(S, stakers, i) ==
  IF i > Len(stakers) THEN S
  ELSE genesis_build(genesis_staker(S, stakers[i]), stakers, i + 1)

Genesis(config) == genesis_build(DefaultStorage(config), config.stakers, 1)

\* The genesis build over a currency whose minimum_balance() is `minimum`.
GenesisWithMinimum(config, minimum) ==
  genesis_build([DefaultStorage(config) EXCEPT !.minimum_balance = minimum],
                config.stakers, 1)

\* The genesis build with config(validator_commission) = `commission`.
GenesisWithCommission(config, commission) ==
  genesis_build([DefaultStorage(config) EXCEPT !.ValidatorCommission = commission],
                config.stakers, 1)

\* The variables hold the storage S.
InitState(S) ==
  /\ free = S.free /\ locks = S.locks /\ minimum_balance = S.minimum_balance
  /\ cdd = S.cdd
  /\ HistoryDepth = S.HistoryDepth /\ ValidatorCount = S.ValidatorCount
  /\ MinimumValidatorCount = S.MinimumValidatorCount
  /\ Invulnerables = S.Invulnerables
  /\ Bonded = S.Bonded /\ Ledger = S.Ledger /\ Payee = S.Payee
  /\ Validators = S.Validators /\ Nominators = S.Nominators
  /\ CurrentEra = S.CurrentEra /\ ActiveEra = S.ActiveEra
  /\ ErasStartSessionIndex = S.ErasStartSessionIndex
  /\ ErasStakers = S.ErasStakers /\ ErasStakersClipped = S.ErasStakersClipped
  /\ ErasValidatorPrefs = S.ErasValidatorPrefs
  /\ ErasValidatorReward = S.ErasValidatorReward
  /\ ErasRewardPoints = S.ErasRewardPoints /\ ErasTotalStake = S.ErasTotalStake
  /\ ForceEra = S.ForceEra /\ SlashRewardFraction = S.SlashRewardFraction
  /\ UnappliedSlashes = S.UnappliedSlashes /\ BondedEras = S.BondedEras
  /\ ValidatorSlashInEra = S.ValidatorSlashInEra
  /\ SlashingSpans = S.SlashingSpans /\ SpanSlash = S.SpanSlash
  /\ EarliestUnappliedSlash = S.EarliestUnappliedSlash
  /\ PermissionedValidators = S.PermissionedValidators
  /\ ValidatorCommission = S.ValidatorCommission
  /\ MinimumBondThreshold = S.MinimumBondThreshold
  /\ SlashDeferDuration = S.SlashDeferDuration
  /\ session = S.session
  /\ paid = S.paid /\ claims = S.claims /\ slashlog = S.slashlog
  /\ last = [op |-> "genesis", who |-> None, era |-> None, arg |-> None,
             err |-> "Ok", ret |-> None]

(***************************************************************************)
(* The session module driving SessionManager (lib.rs, impl SessionManager):*)
(* at genesis new_session(0), new_session(1), start_session(0); at every   *)
(* rotation end_session(i), start_session(i+1), new_session(i+2).  The     *)
(* block that rotates ends with on_finalize.  Dispatchables and reports    *)
(* run in the blocks between two rotations (pc = "idle").                  *)
(***************************************************************************)
\* Value of inflation::compute_total_payout the model lets end_era record.
EraPayouts == {10}

Idle == session.pc = "idle"

\* What the session module keeps of a new_session call: the returned set
\* becomes the queued set (the validators when `initial`), None keeps the
\* sets; `failed` collects the eras planned without an election result.
session_after(S, initial, next_pc) ==
  LET planned == S.CurrentEra # CurrentEra
      sets == IF IsSome(S.ret) THEN Unwrap(S.ret) ELSE {}
  IN [pc |-> next_pc, index |-> S.session.index,
      validators |-> IF initial
                     THEN (IF IsSome(S.ret) THEN sets ELSE DOMAIN S.Validators)
                     ELSE S.session.validators,
      queued |-> IF IsSome(S.ret) THEN sets
                 ELSE IF initial THEN DOMAIN S.Validators ELSE S.session.queued,
      failed |-> IF planned /\ IsNone(S.ret)
                 THEN S.session.failed \cup {Unwrap(S.CurrentEra)}
                 ELSE S.session.failed]

\* new_session(0) then new_session(1) of the genesis build of the session module.
GenesisNewSession ==
  /\ session.pc \in {"genesis", "genesis_queued"}
  /\ \E choice \in ElectionChoices(Cur) :
       \E S \in {new_session(Cur, IF session.pc = "genesis" THEN 0 ELSE 1, choice)} :
         Commit([S EXCEPT !.session =
                   IF session.pc = "genesis"
                   THEN session_after(S, TRUE, "genesis_queued")
                   ELSE session_after(S, FALSE, "genesis_start")],
                Call("new_session", None, None,
                     IF session.pc = "genesis" THEN 0 ELSE 1))

GenesisStartSession ==
  /\ session.pc = "genesis_start"
  /\ Commit([start_session(Cur, 0) EXCEPT !.session.pc = "finalize"],
            Call("start_session", None, None, 0))

\* A rotation out of the running session, while the chain has at most
\* `sessions` sessions.
EndSessionWithin(payouts, sessions) ==
  /\ Idle
  /\ session.index + 2 <= sessions
  /\ \E total_payout \in payouts :
       Commit([end_session(Cur, session.index, total_payout)
                 EXCEPT !.session.pc = "rotate_start"],
              Call("end_session", None, None, session.index))

EndSession(payouts) == EndSessionWithin(payouts, MaxSession)

StartSession ==
  /\ session.pc = "rotate_start"
  /\ Commit([start_session(Cur, session.index + 1) EXCEPT
               !.session = [@ EXCEPT !.pc = "rotate_new", !.index = @ + 1,
                                     !.validators = session.queued]],
            Call("start_session", None, None, session.index + 1))

NewSession ==
  /\ session.pc = "rotate_new"
  /\ \E choice \in ElectionChoices(Cur) :
       \E S \in {new_session(Cur, session.index + 1, choice)} :
         Commit([S EXCEPT !.session = session_after(S, FALSE, "finalize")],
                Call("new_session", None, None, session.index + 1))

\* on_finalize of the block; the block time is read as the session index.
OnFinalize ==
  /\ session.pc = "finalize"
  /\ Commit([on_finalize(Cur, session.index) EXCEPT !.session.pc = "idle"],
            Call("on_finalize", None, None, session.index))

(***************************************************************************)
(* Dispatchables, reports and the environment, with their inputs.          *)
(***************************************************************************)
Bond(stashes, values) ==
  /\ Idle
  /\ \E stash \in stashes, value \in values :
       Commit(bond(Cur, stash, stash, value, "Staked"),
              Call("bond", stash, None, value))

\* bond with a controller and a payee of the caller's choice.
BondTo(stashes, controllers, values, payees) ==
  /\ Idle
  /\ \E stash \in stashes, controller \in controllers, value \in values, payee \in payees :
       Commit(bond(Cur, stash, controller, value, payee),
              Call("bond", stash, None,
                   [controller |-> controller, value |-> value, payee |-> payee]))

BondExtra(stashes, values) ==
  /\ Idle
  /\ \E stash \in stashes, max_additional \in values :
       Commit(bond_extra(Cur, stash, max_additional),
              Call("bond_extra", stash, None, max_additional))

\* unbond is called on ledgers with fewer than `chunks` unlocking chunks.
Unbond(controllers, values, chunks) ==
  /\ Idle
  /\ \E controller \in controllers, value \in values :
       /\ controller \in DOMAIN Ledger => Len(Ledger[controller].unlocking) < chunks
       /\ Commit(unbond(Cur, controller, value),
              Call("unbond", controller, None, value))

Rebond(controllers, values) ==
  /\ Idle
  /\ \E controller \in controllers, value \in values :
       Commit(rebond(Cur, controller, value),
              Call("rebond", controller, None, value))

WithdrawUnbonded(controllers) ==
  /\ Idle
  /\ \E controller \in controllers :
       Commit(withdraw_unbonded(Cur, controller),
              Call("withdraw_unbonded", controller, None,
                   IF controller \in DOMAIN Ledger
                   THEN Some(Ledger[controller].stash) ELSE None))

SetPayee(controllers, payees) ==
  /\ Idle
  /\ \E controller \in controllers, payee \in payees :
       Commit(set_payee(Cur, controller, payee),
              Call("set_payee", controller, None, payee))

SetController(stashes, controllers) ==
  /\ Idle
  /\ \E stash \in stashes, controller \in controllers :
       Commit(set_controller(Cur, stash, controller),
              Call("set_controller", stash, None, controller))

Validate(controllers, commissions) ==
  /\ Idle
  /\ \E controller \in controllers, commission \in commissions :
       Commit(validate(Cur, controller, commission),
              Call("validate", controller, None, commission))

Nominate(controllers, votes) ==
  /\ Idle
  /\ \E controller \in controllers, targets \in votes :
       Commit(nominate(Cur, controller, targets),
              Call("nominate", controller, None, targets))

Chill(controllers) ==
  /\ Idle
  /\ \E controller \in controllers :
       Commit(chill(Cur, controller), Call("chill", controller, None, None))

ValidateCddExpiryNominators(callers, lists) ==
  /\ Idle
  /\ \E caller \in callers, targets \in lists :
       Commit(validate_cdd_expiry_nominators(Cur, caller, targets),
              Call("validate_cdd_expiry_nominators", caller, None, targets))

PayoutValidator(controllers, eras) ==
  /\ Idle
  /\ \E who \in controllers, era \in eras :
       Commit(do_payout_validator(Cur, who, era),
              Call("payout_validator", who, era, None))

PayoutNominator(controllers, eras, lists) ==
  /\ Idle
  /\ \E who \in controllers, era \in eras, validators \in lists :
       Commit(do_payout_nominator(Cur, who, era, validators),
              Call("payout_nominator", who, era, validators))

\* slashing::do_slash on the ledger of a bonded stash; the amount that
\* StakingLedger::slash returns is kept as the result of the step.
SlashLedger(stashes, values) ==
  /\ Idle
  /\ \E stash \in stashes, value \in values :
       /\ stash \in DOMAIN Bonded
       /\ Bonded[stash] \in DOMAIN Ledger
       /\ \E r \in {do_slash(Cur, stash, value)} :
            Commit([r.S EXCEPT !.ret = Some(r.slashed + r.missing)],
                   Call("slash", stash, None, value))

ForceUnstake(stashes) ==
  /\ Idle
  /\ \E stash \in stashes :
       Commit(force_unstake(Cur, stash), Call("force_unstake", stash, None, None))

ReapStash(stashes) ==
  /\ Idle
  /\ \E stash \in stashes :
       Commit(reap_stash(Cur, stash), Call("reap_stash", stash, None, None))

SetHistoryDepth(depths) ==
  /\ Idle
  /\ \E new_history_depth \in depths :
       Commit(set_history_depth(Cur, "Root", new_history_depth),
              Call("set_history_depth", "Root", None, new_history_depth))

ForceNoEras ==
  /\ Idle
  /\ Commit(force_no_eras(Cur, "Root"), Call("force_no_eras", "Root", None, None))

ForceNewEra ==
  /\ Idle
  /\ Commit(force_new_era(Cur, "Root"), Call("force_new_era", "Root", None, None))

ForceNewEraAlways ==
  /\ Idle
  /\ Commit(force_new_era_always(Cur, "Root"),
            Call("force_new_era_always", "Root", None, None))

RemovePermissionedValidator(origins, stashes) ==
  /\ Idle
  /\ \E origin \in origins, validator \in stashes :
       Commit(remove_permissioned_validator(Cur, origin, validator),
              Call("remove_permissioned_validator", origin, None, validator))

SetInvulnerables(sets) ==
  /\ Idle
  /\ \E validators \in sets :
       Commit(set_invulnerables(Cur, "Root", validators),
              Call("set_invulnerables", "Root", None, validators))

\* reward_by_ids, as another module calls it, also before the genesis of
\* the session module has started era 0, until the active era has `limit`
\* points.
RewardByIds(lists, limit) ==
  /\ session.pc \in {"idle", "genesis", "genesis_queued", "genesis_start"}
  /\ IsSome(ActiveEra) => eras_reward_points(Cur, Unwrap(ActiveEra).index).total < limit
  /\ \E validators_points \in lists :
       Commit(reward_by_ids(Cur, validators_points),
              Call("reward_by_ids", "Root", None, validators_points))

SetGlobalCommission(values) ==
  /\ Idle
  /\ \E new_value \in values :
       Commit(set_global_commission(Cur, "Root", new_value),
              Call("set_global_commission", "Root", None, new_value))

EnableIndividualCommissions ==
  /\ Idle
  /\ Commit(enable_individual_commissions(Cur, "Root"),
            Call("enable_individual_commissions", "Root", None, None))

SetMinBondThreshold(values) ==
  /\ Idle
  /\ \E new_value \in values :
       Commit(set_min_bond_threshold(Cur, "Root", new_value),
              Call("set_min_bond_threshold", "Root", None, new_value))

AddPermissionedValidatorFrom(origins, stashes) ==
  /\ Idle
  /\ \E origin \in origins, validator \in stashes :
       Commit(add_permissioned_validator(Cur, origin, validator),
              Call("add_permissioned_validator", origin, None, validator))

AddPermissionedValidator(stashes) == AddPermissionedValidatorFrom({"Root"}, stashes)

CancelDeferredSlash(origins, eras, lists) ==
  /\ Idle
  /\ \E origin \in origins, era \in eras, slash_indices \in lists :
       Commit(cancel_deferred_slash(Cur, origin, era, slash_indices),
              Call("cancel_deferred_slash", origin, era, slash_indices))

\* The identity module changes the CDD state of an account.
CddChange(accounts, states) ==
  /\ Idle
  /\ \E a \in accounts, st \in states :
       /\ cdd[a] # st
       /\ Commit([Cur EXCEPT !.cdd[a] = st], Call("cdd_change", a, None, st))

\* note_author: 20 points to the author of a block, one of the validators
\* of the session; blocks are authored in the active eras `eras`, until the
\* era has `limit` points.
NoteAuthor(eras, limit) ==
  /\ Idle
  /\ IsSome(ActiveEra)
  /\ Unwrap(ActiveEra).index \in eras
  /\ eras_reward_points(Cur, Unwrap(ActiveEra).index).total < limit
  /\ \E author \in session.validators :
       Commit(reward_by_ids(Cur, <<<<author, 20>>>>),
              Call("note_author", author, None, None))

\* The offences module reports validators of the running session, with
\* the exposure the historical session module proves for them.
OnOffence(fractions, limit) ==
  /\ Idle
  /\ IsSome(ActiveEra)
  /\ slashlog.next < limit
  /\ \E offender \in session.validators, fraction \in fractions, disable \in BOOLEAN :
       Commit(on_offence(Cur,
                <<[stash |-> offender,
                   exposure |-> eras_stakers(Cur, Unwrap(ActiveEra).index, offender),
                   reporters |-> <<>>, fraction |-> fraction, disable |-> disable]>>,
                session.index),
              Call("on_offence", offender, Some(Unwrap(ActiveEra).index), fraction))

(***************************************************************************)
(* Specification of the scheduler and the election: a chain whose genesis  *)
(* bonds three validators (v3 with an expired CDD claim) and two           *)
(* nominators, v1 backed by both.                                          *)
(***************************************************************************)
GenesisBalances ==
  [a \in Accounts |-> CASE a \in {"v1", "v2", "v3"} -> 30
                        [] a \in {"n1", "n2"} -> 20
                        [] OTHER -> 0]

EraCdds ==
  [a \in Accounts |-> CASE a \in {"v1", "v2", "n1", "n2"} -> "long"
                        [] a = "v3" -> "expired"
                        [] OTHER -> "none"]

EraStakers ==
  << Staker("v1", "v1", 30, "Validator", <<>>),
     Staker("v2", "v2", 20, "Validator", <<>>),
     Staker("v3", "v3", 30, "Validator", <<>>),
     Staker("n1", "n1", 10, "Nominator", <<"v1", "v2">>),
     Staker("n2", "n2", 10, "Nominator", <<"v1">>) >>

InitEra ==
  \E force_era \in {"NotForcing", "ForceNone"} :
    InitState(Genesis(GenesisConfig(GenesisBalances, EraCdds, force_era, 2, 2, 0, 0,
                                    EraStakers)))

NextEra ==
  \/ GenesisNewSession
  \/ GenesisStartSession
  \/ EndSession(EraPayouts)
  \/ StartSession
  \/ NewSession
  \/ OnFinalize
  \/ ForceNoEras
  \/ ForceNewEra
  \/ ForceNewEraAlways
  \/ Chill({"v1"})
  \/ Validate({"v1"}, {0})
  \/ CddChange({"v3"}, {"long", "expired"})
  \/ SetMinBondThreshold({0, 25})

SpecEra == InitEra /\ [][NextEra]_vars

(***************************************************************************)
(* Properties of the scheduler and the election, under SpecEra.            *)
(***************************************************************************)
ExposureSum(e) == e.own + SumValues(e.others)

\* C4 (as stated): every exposure stored for an (era, validator), the full
\* ErasStakers entry and the clipped ErasStakersClipped entry, satisfies
\* own + sum of others == total.
C4_StoredExposuresAddUp ==
  /\ \A era \in DOMAIN ErasStakers : \A v \in DOMAIN ErasStakers[era] :
       ExposureSum(ErasStakers[era][v]) = ErasStakers[era][v].total
  /\ \A era \in DOMAIN ErasStakersClipped : \A v \in DOMAIN ErasStakersClipped[era] :
       ExposureSum(ErasStakersClipped[era][v]) = ErasStakersClipped[era][v].total

\* C4 (amended): the full entry satisfies own + sum of others == total; the
\* clipped entry is stored for the same keys, keeps total and own of the
\* full entry, satisfies own + sum of others <= total, and is the full
\* entry when that has at most MaxNominatorRewardedPerValidator others.
C4_FullAddsUpClippedBounded ==
  /\ DOMAIN ErasStakersClipped = DOMAIN ErasStakers
  /\ \A era \in DOMAIN ErasStakers :
       /\ DOMAIN ErasStakersClipped[era] = DOMAIN ErasStakers[era]
       /\ \A v \in DOMAIN ErasStakers[era] :
            LET full == ErasStakers[era][v]
                clipped == ErasStakersClipped[era][v]
            IN /\ ExposureSum(full) = full.total
               /\ clipped.total = full.total
               /\ clipped.own = full.own
               /\ ExposureSum(clipped) <= clipped.total
               /\ Len(clipped.others) <= MaxNominatorRewardedPerValidator
               /\ Len(full.others) <= MaxNominatorRewardedPerValidator => clipped = full

\* An era stores for v1 a full exposure with two backers and a clipped one
\* that dropped a backer of non-zero value.
C4_Witness ==
  \E era \in DOMAIN ErasStakers :
    /\ "v1" \in DOMAIN ErasStakers[era]
    /\ Len(ErasStakers[era]["v1"].others) > MaxNominatorRewardedPerValidator
    /\ ExposureSum(ErasStakersClipped[era]["v1"]) < ErasStakersClipped[era]["v1"].total

\* C8 (as stated): when the election of a new era fails, after that era
\* becomes active the exposure reported for each validator of the retained
\* set is the exposure it had in the prior era.
C8_FailedElectionKeepsExposures ==
  (/\ IsSome(ActiveEra)
   /\ Unwrap(ActiveEra).index > 0
   /\ Unwrap(ActiveEra).index \in session.failed)
  => \A v \in session.validators :
       ExposureOf(Cur, v) = Some(eras_stakers(Cur, Unwrap(ActiveEra).index - 1, v))

\* C9: every stash of a set returned by new_session was, when that election
\* ran, registered in Validators, bonded with a ledger whose active is at
\* least MinimumBondThreshold, CDD compliant, and is Active in
\* PermissionedValidators as the election left it; a validator that was
\* Pending before the election is elected only if the refresh made it Active.
C9_ElectedAreEligible ==
  [][ (last'.op = "new_session" /\ IsSome(last'.ret)) =>
        \A e \in Unwrap(last'.ret) :
          /\ e \in DOMAIN Validators
          /\ e \in DOMAIN Bonded /\ Bonded[e] \in DOMAIN Ledger
          /\ Ledger[Bonded[e]].active >= MinimumBondThreshold
          /\ is_validator_or_nominator_compliant(Cur, e)
          /\ e \in DOMAIN PermissionedValidators
          /\ e \in DOMAIN PermissionedValidators'
          /\ PermissionedValidators'[e] = "Active" ]_vars

\* An election returned a non-empty set and left out v3, registered in
\* Validators with enough bond but Pending in PermissionedValidators.
C9_Witness ==
  /\ last.op = "new_session"
  /\ IsSome(last.ret)
  /\ Unwrap(last.ret) # {}
  /\ "v3" \in DOMAIN Validators
  /\ "v3" \notin Unwrap(last.ret)
  /\ is_active_balance_above_min_bond(Cur, "v3")
  /\ PermissionedValidators["v3"] = "Pending"

\* C10 (as stated): a new_session call made while ForceEra is ForceNone, in
\* any state, leaves CurrentEra unchanged and returns no validator set.
C10_ForceNoneNeverAdvances ==
  [][ (last'.op = "new_session" /\ ForceEra = "ForceNone") =>
        (CurrentEra' = CurrentEra /\ IsNone(last'.ret)) ]_vars

\* C10 (amended): once a current era exists, a new_session call made while
\* ForceEra is ForceNone leaves CurrentEra unchanged and returns no set.
C10_ForceNoneKeepsExistingEra ==
  [][ (last'.op = "new_session" /\ ForceEra = "ForceNone" /\ IsSome(CurrentEra)) =>
        (CurrentEra' = CurrentEra /\ IsNone(last'.ret)) ]_vars

\* new_session ran under ForceNone for a session at which the current era
\* had reached SessionsPerEra sessions, and the era did not advance.
C10_Witness ==
  /\ last.op = "new_session"
  /\ ForceEra = "ForceNone"
  /\ IsSome(CurrentEra)
  /\ last.arg - Get(ErasStartSessionIndex, Unwrap(CurrentEra), 0) >= SessionsPerEra
  /\ IsNone(last.ret)


(***************************************************************************)
(* Specification of the ledgers: a chain that plans an era every session   *)
(* (ForceAlways) with the validator v1 and its nominator n1, where v1      *)
(* bonds, unbonds, rebonds, withdraws and is paid and slashed; slashes are *)
(* applied at once (SlashDeferDuration = 0).                               *)
(***************************************************************************)
LedgerBalances ==
  [a \in Accounts |-> CASE a = "v1" -> 3
                        [] a = "n1" -> 2
                        [] OTHER -> 0]

LedgerCdds ==
  [a \in Accounts |-> IF a \in {"v1", "v2", "n1"} THEN "long" ELSE "none"]

LedgerStakers ==
  << Staker("v1", "v1", 2, "Validator", <<>>),
     Staker("n1", "n1", 1, "Nominator", <<"v1">>) >>

InitLedger ==
  InitState(Genesis(GenesisConfig(LedgerBalances, LedgerCdds, "ForceAlways", 1, 1, 0, 0,
                                  LedgerStakers)))

NextLedger ==
  \/ GenesisNewSession
  \/ GenesisStartSession
  \/ EndSession(EraPayouts)
  \/ StartSession
  \/ NewSession
  \/ OnFinalize
  \/ Bond({"v1"}, {2})
  \/ BondExtra({"v1"}, {1})
  \/ Unbond({"v1"}, {2}, MaxChunks)
  \/ Rebond({"v1"}, {1})
  \/ WithdrawUnbonded({"v1"})
  \/ NoteAuthor({0}, 20)
  \/ PayoutValidator({"v1"}, {0})
  \/ OnOffence({Accuracy}, 1)

SpecLedger == InitLedger /\ [][NextLedger]_vars

(***************************************************************************)
(* Specification of the reward claims: a chain that plans an era every     *)
(* session (ForceAlways), where v1 may hand its ledger to the controller   *)
(* c1 and n1 may withdraw everything and bond again.                       *)
(***************************************************************************)
PayoutBalances ==
  [a \in Accounts |-> CASE a = "v1" -> 30
                        [] a = "n1" -> 20
                        [] OTHER -> 0]

PayoutStakers ==
  << Staker("v1", "v1", 30, "Validator", <<>>),
     Staker("n1", "n1", 10, "Nominator", <<"v1">>) >>

\* Argument lists of payout_nominator: the nominator's pair once, and twice.
PayoutLists == { <<<<"v1", 0>>>>, <<<<"v1", 0>>, <<"v1", 0>>>> }

InitPayout ==
  InitState(Genesis(GenesisConfig(PayoutBalances, LedgerCdds, "ForceAlways", 1, 1, 0, 0,
                                  PayoutStakers)))

NextPayout ==
  \/ GenesisNewSession
  \/ GenesisStartSession
  \/ EndSession(EraPayouts)
  \/ StartSession
  \/ NewSession
  \/ OnFinalize
  \/ SetController({"v1"}, {"c1"})
  \/ Unbond({"n1"}, {20}, MaxChunks)
  \/ WithdrawUnbonded({"n1"})
  \/ Bond({"n1"}, {10})
  \/ NoteAuthor({0}, 20)
  \/ PayoutValidator({"v1", "c1"}, {0, 1})
  \/ PayoutNominator({"n1"}, {0, 1}, PayoutLists)

SpecPayout == InitPayout /\ [][NextPayout]_vars

(***************************************************************************)
(* Properties of the ledgers (SpecLedger) and of the claims (SpecPayout).   *)
(***************************************************************************)
\* C1: every stored ledger satisfies total = active + the sum of the
\* values of its unlocking chunks, after any sequence of bond, bond_extra,
\* unbond, rebond, withdraw_unbonded, validate_cdd_expiry_nominators, reward
\* payouts to the Staked destination and ledger slashes.
C1_LedgerTotalIsActivePlusUnlocking ==
  \A c \in DOMAIN Ledger :
    Ledger[c].total = Ledger[c].active + SumValues(Ledger[c].unlocking)

\* C1 witness: a ledger that holds unlocking chunks after having been
\* slashed and paid a reward to the Staked destination.
C1_Witness ==
  /\ \E c \in DOMAIN Ledger : Ledger[c].unlocking # <<>> /\ Ledger[c].active > 0
  /\ Len(slashlog.applied) > 0
  /\ \E e \in DOMAIN paid : paid[e] > 0

PayoutOps == {"payout_validator", "payout_nominator"}

\* last_reward a is not after last_reward b (None before every era).
LastRewardLeq(a, b) == IsNone(a) \/ (IsSome(b) /\ Unwrap(a) <= Unwrap(b))

\* C2: a claim for era E succeeds only if E has a recorded payout and the
\* caller's ledger has last_reward absent or below E, and it sets
\* last_reward to E; a claim of a controller that does not succeed returns
\* InvalidEraToReward and a rejected claim leaves the ledgers unchanged;
\* last_reward of a ledger never decreases; no stash is paid twice for an
\* era, and a stash paid for era N has last_reward >= N as long as it is
\* bonded, also after set_controller or withdraw_unbonded and a fresh bond.
C2_ClaimsAreOneShotAndMonotone ==
  [][ /\ (last'.op \in PayoutOps /\ last'.err = "Ok") =>
           /\ last'.era \in DOMAIN ErasValidatorReward
           /\ last'.who \in DOMAIN Ledger
           /\ LET l == Ledger[last'.who] IN
                /\ IsNone(l.last_reward) \/ Unwrap(l.last_reward) < last'.era
                /\ <<l.stash, last'.era>> \notin claims
                /\ <<l.stash, last'.era>> \in claims'
           /\ last'.who \in DOMAIN Ledger'
           /\ Ledger'[last'.who].last_reward = Some(last'.era)
      /\ (last'.op \in PayoutOps /\ last'.err # "Ok") =>
           /\ Ledger' = Ledger
           /\ claims' = claims
           /\ last'.who \in DOMAIN Ledger => last'.err = "InvalidEraToReward"
      /\ \A c \in DOMAIN Ledger \cap DOMAIN Ledger' :
           Ledger[c].stash = Ledger'[c].stash =>
             LastRewardLeq(Ledger[c].last_reward, Ledger'[c].last_reward)
      /\ \A cl \in claims' :
           cl[1] \in DOMAIN Bonded' /\ Bonded'[cl[1]] \in DOMAIN Ledger' =>
             LastRewardLeq(Some(cl[2]), Ledger'[Bonded'[cl[1]]].last_reward)
    ]_vars

\* C2 witness: a claim rejected with InvalidEraToReward for a stash that was
\* paid for that era, withdrew everything and bonded again.
C2_Witness ==
  /\ last.op \in PayoutOps /\ last.err = "InvalidEraToReward"
  /\ last.who \in DOMAIN Ledger
  /\ <<Ledger[last.who].stash, last.era>> \in claims
  /\ last.era \in DOMAIN ErasValidatorReward
  /\ IsSome(CurrentEra) /\ Ledger[last.who].last_reward = CurrentEra

\* C3: for every era with a recorded payout, the amounts paid by the
\* successful payout_validator and payout_nominator claims for the era sum
\* to at most the payout.
C3_PayoutsWithinEraPayout ==
  \A e \in DOMAIN paid :
    e \in DOMAIN ErasValidatorReward => paid[e] <= ErasValidatorReward[e]


(***************************************************************************)
(* Specification of the deferred slashes: a chain that plans an era every  *)
(* session with the validators v1 and v2, whose runtime defers slashes by  *)
(* 0 or 1 era; offences are reported and Root cancels queued slashes.      *)
(***************************************************************************)
SlashBalances ==
  [a \in Accounts |-> IF a \in {"v1", "v2"} THEN 30 ELSE 0]

SlashStakers ==
  << Staker("v1", "v1", 30, "Validator", <<>>),
     Staker("v2", "v2", 30, "Validator", <<>>) >>

DeferDurations == {0, 1}

\* Index lists handed to cancel_deferred_slash.
CancelLists == { <<0>>, <<0, 0>>, <<1, 1>>, <<1, 0>>, <<2>> }

InitSlash ==
  \E slash_defer_duration \in DeferDurations :
    InitState(Genesis(GenesisConfig(SlashBalances, LedgerCdds, "ForceAlways", 2, 1,
                                    slash_defer_duration, 0, SlashStakers)))

NextSlash ==
  \/ GenesisNewSession
  \/ GenesisStartSession
  \/ EndSession(EraPayouts)
  \/ StartSession
  \/ NewSession
  \/ OnFinalize
  \/ OnOffence({Accuracy \div 2, Accuracy}, 3)
  \/ CancelDeferredSlash({"Root"}, {0, 1}, CancelLists)

SpecSlash == InitSlash /\ [][NextSlash]_vars


(***************************************************************************)
(* Properties of the deferred slashes, under SpecSlash.  slashlog numbers  *)
(* the slashes on_offence computes: queued holds <<id, era>> for a slash   *)
(* pushed to UnappliedSlashes[era], applied the ids handed to apply_slash, *)
(* cancelled the ids cancel_deferred_slash took out of a queue.            *)
(***************************************************************************)
ActiveIndex == Unwrap(ActiveEra).index
AppliedIds == SeqToSet(slashlog.applied)
QueueIds(queue) == {queue[k].id : k \in 1..Len(queue)}
\* The ids on_offence computed in the step.
NewIds == {id \in 0..(slashlog'.next - 1) : id >= slashlog.next}

\* C5: with SlashDeferDuration d > 0 on_offence only queues the slash under
\* the active era a and changes no ledger, lock or balance; slashes are
\* applied by start_session only, the queue of era a in the call that
\* makes era a + d + 1 active, which applies all of it.  With d = 0
\* on_offence applies the slash itself and queues nothing.
C5_SlashesAreDeferred ==
  [][ /\ (last'.op = "on_offence" /\ SlashDeferDuration > 0) =>
           /\ Ledger' = Ledger /\ free' = free /\ locks' = locks
           /\ slashlog'.applied = slashlog.applied
           /\ \A id \in NewIds :
                /\ <<id, ActiveIndex>> \in slashlog'.queued
                /\ id \in QueueIds(Get(UnappliedSlashes', ActiveIndex, <<>>))
      /\ (last'.op = "on_offence" /\ SlashDeferDuration = 0) =>
           /\ UnappliedSlashes' = UnappliedSlashes
           /\ slashlog'.queued = slashlog.queued
           /\ SeqToSet(slashlog'.applied) = AppliedIds \cup NewIds
      /\ (slashlog'.applied # slashlog.applied /\ SlashDeferDuration > 0) =>
           /\ last'.op = "start_session"
           /\ \A id \in SeqToSet(slashlog'.applied) \ AppliedIds :
                \E q \in slashlog.queued :
                  /\ q[1] = id
                  /\ Unwrap(ActiveEra').index = q[2] + SlashDeferDuration + 1
                  /\ ActiveIndex = q[2] + SlashDeferDuration
      /\ (IsSome(ActiveEra) /\ ActiveEra' # ActiveEra
            /\ Unwrap(ActiveEra').index >= SlashDeferDuration + 1) =>
           LET a == Unwrap(ActiveEra').index - (SlashDeferDuration + 1) IN
             /\ QueueIds(Get(UnappliedSlashes, a, <<>>)) \subseteq SeqToSet(slashlog'.applied)
             /\ a \notin DOMAIN UnappliedSlashes'
    ]_vars

\* C5 witness: a slash queued under era a has just been applied by the
\* start_session call that made era a + d + 1 active, with d > 0, and took
\* from the validator's ledger.
C5_Witness ==
  /\ SlashDeferDuration > 0
  /\ last.op = "start_session"
  /\ \E q \in slashlog.queued :
       /\ q[1] \in AppliedIds
       /\ ActiveIndex = q[2] + SlashDeferDuration + 1
  /\ \E c \in DOMAIN Ledger : Ledger[c].total < 30

\* A slash queued under era a is due once era a + d + 1 is active.
Due(a) == IsSome(ActiveEra) /\ ActiveIndex >= a + SlashDeferDuration + 1

SlashLogConsistent ==
  /\ AppliedIds \cap slashlog.cancelled = {}
  /\ \A i, j \in 1..Len(slashlog.applied) :
       slashlog.applied[i] = slashlog.applied[j] => i = j
  /\ \A q \in slashlog.queued :
       /\ q[1] \in AppliedIds => Due(q[2])
       /\ (Due(q[2]) /\ q[1] \notin slashlog.cancelled) => q[1] \in AppliedIds
       /\ (~Due(q[2]) /\ q[1] \notin slashlog.cancelled) =>
            q[1] \in QueueIds(Get(UnappliedSlashes, q[2], <<>>))

\* C6: a slash cancelled while queued is never applied; a queued slash that
\* is not cancelled is applied exactly once, when its era is due (no queue
\* is skipped); and cancel_deferred_slash for an era whose queue has been
\* applied fails with InvalidSlashIndex for every non-empty index list and
\* changes nothing.
C6_CancelledNeverAppliedOthersOnce ==
  /\ []SlashLogConsistent
  /\ [][ (last'.op = "cancel_deferred_slash" /\ last'.arg # <<>> /\ Due(last'.era)) =>
           /\ last'.err = "InvalidSlashIndex"
           /\ UnappliedSlashes' = UnappliedSlashes
           /\ Ledger' = Ledger /\ free' = free /\ locks' = locks
           /\ slashlog' = slashlog
       ]_vars

\* C6 witness: of two slashes queued under an era one was cancelled and
\* the other applied, and a later cancel for that era has just failed.
C6_Witness ==
  /\ last.op = "cancel_deferred_slash" /\ last.err = "InvalidSlashIndex"
  /\ Due(last.era)
  /\ \E q1, q2 \in slashlog.queued :
       /\ q1[2] = last.era /\ q2[2] = last.era
       /\ q1[1] \in slashlog.cancelled
       /\ q2[1] \in AppliedIds

HasDuplicate(s) == \E i, j \in 1..Len(s) : i # j /\ s[i] = s[j]
\* The queue without the entries at the (0-based) positions listed in s.
WithoutPositions(queue, s) ==
  LET kept == {k \in 1..Len(queue) : (k - 1) \notin SeqToSet(s)}
      F[k \in 0..Len(queue)] ==
        IF k = 0 THEN <<>>
        ELSE IF k \in kept THEN Append(F[k - 1], queue[k]) ELSE F[k - 1]
  IN F[Len(queue)]

\* C7: cancel_deferred_slash by Root fails when the list holds an index
\* twice (DuplicateIndex) or an index that is no position of the era's
\* queue (InvalidSlashIndex), leaving UnappliedSlashes unchanged; when it
\* succeeds, exactly the entries at the listed positions are removed and
\* the others keep their order.  (Either error is accepted for a list that
\* has both faults.)
C7_CancelRemovesExactlyListed ==
  [][ last'.op = "cancel_deferred_slash" =>
        LET queue == Get(UnappliedSlashes, last'.era, <<>>)
            list == last'.arg
            dup == HasDuplicate(list)
            invalid == \E k \in 1..Len(list) : list[k] >= Len(queue)
        IN /\ (dup /\ ~invalid) => last'.err = "DuplicateIndex"
           /\ (invalid /\ ~dup) => last'.err = "InvalidSlashIndex"
           /\ (dup /\ invalid) => last'.err \in {"DuplicateIndex", "InvalidSlashIndex"}
           /\ last'.err # "Ok" => UnappliedSlashes' = UnappliedSlashes
           /\ last'.err = "Ok" =>
                Get(UnappliedSlashes', last'.era, <<>>) = WithoutPositions(queue, list)
    ]_vars

(***************************************************************************)
(* Specification of the era schedule: two validators, any genesis value    *)
(* of ForceEra, root forcing the schedule and shortening the history, and  *)
(* v1 leaving and rejoining so that elections fail and succeed.            *)
(***************************************************************************)
\* Values end_era may record as the payout of an era.
SchedPayouts == {10, 11}

\* Values set_history_depth is called with.
HistoryDepths == {0, 1}

InitSched ==
  \E force_era \in Forcings :
    InitState(Genesis(GenesisConfig(SlashBalances, LedgerCdds, force_era, 2, 2, 0, 0,
                                    SlashStakers)))

NextSched ==
  \/ GenesisNewSession
  \/ GenesisStartSession
  \/ EndSession(SchedPayouts)
  \/ StartSession
  \/ NewSession
  \/ OnFinalize
  \/ ForceNoEras
  \/ ForceNewEra
  \/ ForceNewEraAlways
  \/ Chill({"v1"})
  \/ Validate({"v1"}, {0})
  \/ SetHistoryDepth(HistoryDepths)

SpecSched == InitSched /\ [][NextSched]_vars

\* The era new_era plans after the current one.
NextPlanned == IF IsSome(CurrentEra) THEN Unwrap(CurrentEra) + 1 ELSE 0

\* C11 (as stated): whenever new_session is called while ForceEra is
\* ForceNew, the call plans exactly one more era and leaves ForceEra at
\* NotForcing.
C11_ForceNewAdvancesOnceThenResets ==
  [][(last'.op = "new_session" /\ ForceEra = "ForceNew")
       => (CurrentEra' = Some(NextPlanned) /\ ForceEra' = "NotForcing")]_vars

\* C11 (amended): a new_session call made while ForceEra is ForceNew plans
\* exactly one more era; it resets ForceEra to NotForcing when a current
\* era exists, and leaves ForceEra at ForceNew when it plans the initial
\* era (no current era yet), so that the following call forces again.
C11_ForceNewResetsOnceAnEraExists ==
  [][(last'.op = "new_session" /\ ForceEra = "ForceNew")
       => /\ CurrentEra' = Some(NextPlanned)
          /\ ErasStartSessionIndex'[NextPlanned] = last'.arg
          /\ ForceEra' = IF IsSome(CurrentEra) THEN "NotForcing" ELSE "ForceNew"]_vars

\* A forced era: planned by the last new_session call, sooner after its
\* predecessor than SessionsPerEra, with ForceEra back at NotForcing.
C11_Witness ==
  /\ last.op = "new_session"
  /\ ForceEra = "NotForcing"
  /\ IsSome(CurrentEra)
  /\ Unwrap(CurrentEra) >= 1
  /\ Unwrap(CurrentEra) - 1 \in DOMAIN ErasStartSessionIndex
  /\ ErasStartSessionIndex[Unwrap(CurrentEra)] = last.arg
  /\ last.arg - ErasStartSessionIndex[Unwrap(CurrentEra) - 1] < SessionsPerEra

\* C12: a new_session(idx) call made under NotForcing with a current era
\* plans a new era exactly when idx minus the start session of the current
\* era has reached SessionsPerEra; that era is the active one whenever an
\* era is active, and the planned one not yet started otherwise; the new
\* era is recorded with start session idx whether or not the election
\* returned a validator set.
C12_NotForcingPlansBySessionsPerEra ==
  [][(last'.op = "new_session" /\ ForceEra = "NotForcing" /\ IsSome(CurrentEra))
       => LET current_era == Unwrap(CurrentEra)
              idx == last'.arg
          IN /\ current_era \in DOMAIN ErasStartSessionIndex
             /\ IsSome(ActiveEra) => Unwrap(ActiveEra).index = current_era
             /\ (CurrentEra' # CurrentEra)
                  <=> (idx - ErasStartSessionIndex[current_era] >= SessionsPerEra)
             /\ (CurrentEra' # CurrentEra)
                  => /\ CurrentEra' = Some(current_era + 1)
                     /\ ErasStartSessionIndex'[current_era + 1] = idx
             /\ (CurrentEra' = CurrentEra) => last'.ret = None]_vars

\* An era planned under NotForcing SessionsPerEra sessions after its
\* predecessor, by a call whose election failed.
C12_Witness ==
  /\ last.op = "new_session"
  /\ ForceEra = "NotForcing"
  /\ IsSome(CurrentEra)
  /\ Unwrap(CurrentEra) >= 1
  /\ Unwrap(CurrentEra) - 1 \in DOMAIN ErasStartSessionIndex
  /\ ErasStartSessionIndex[Unwrap(CurrentEra)] = last.arg
  /\ last.arg - ErasStartSessionIndex[Unwrap(CurrentEra) - 1] = SessionsPerEra
  /\ last.ret = None
  /\ Unwrap(CurrentEra) \in session.failed

\* The eras whose payout is recorded, and the eras that lost their record.
Rewarded == DOMAIN ErasValidatorReward
Pruned == Rewarded \ DOMAIN ErasValidatorReward'

\* C13: ErasValidatorReward changes only (a) in end_session(idx), which
\* records the payout of the active era e, not recorded before, when
\* idx + 1 is the recorded start session of era e + 1, and keeps every
\* other record; or (b) in new_session and set_history_depth, which only
\* drop records of eras that fell out of the history window.
C13_EraPayoutFixedOnce ==
  [][(ErasValidatorReward' # ErasValidatorReward)
       => \/ /\ last'.op = "end_session"
             /\ IsSome(ActiveEra)
             /\ LET e == Unwrap(ActiveEra).index
                IN /\ e \notin Rewarded
                   /\ e + 1 \in DOMAIN ErasStartSessionIndex
                   /\ ErasStartSessionIndex[e + 1] = last'.arg + 1
                   /\ DOMAIN ErasValidatorReward' = Rewarded \cup {e}
                   /\ \A k \in Rewarded : ErasValidatorReward'[k] = ErasValidatorReward[k]
          \/ /\ last'.op \in {"new_session", "set_history_depth"}
             /\ DOMAIN ErasValidatorReward' \subseteq Rewarded
             /\ \A k \in DOMAIN ErasValidatorReward' :
                  ErasValidatorReward'[k] = ErasValidatorReward[k]
             /\ \A k \in Pruned : k + HistoryDepth' < Unwrap(CurrentEra')]_vars

\* end_session has just recorded the payout of the active era, and the
\* different payout recorded for the era before it is still there.
C13_Witness ==
  /\ last.op = "end_session"
  /\ IsSome(ActiveEra)
  /\ Unwrap(ActiveEra).index >= 1
  /\ {Unwrap(ActiveEra).index - 1, Unwrap(ActiveEra).index} \subseteq Rewarded
  /\ ErasValidatorReward[Unwrap(ActiveEra).index]
       # ErasValidatorReward[Unwrap(ActiveEra).index - 1]
  /\ ErasStartSessionIndex[Unwrap(ActiveEra).index + 1] = last.arg + 1

\* The era start_session makes active next.
NextActive == IF IsSome(ActiveEra) THEN Unwrap(ActiveEra).index + 1 ELSE 0

\* C14: start_session(idx) makes the pending era (the active index plus
\* one, era 0 when none is active) active, with its start unset, exactly
\* when the recorded start session of that era is idx; on_finalize sets the
\* start of an active era whose start is unset and changes nothing
\* otherwise; no other operation touches ActiveEra, so the active index
\* never decreases and grows by one per flip.
C14_ActiveEraFlipsAtItsStartSession ==
  [][/\ last'.op = "start_session"
        => ActiveEra' = IF /\ NextActive \in DOMAIN ErasStartSessionIndex
                           /\ ErasStartSessionIndex[NextActive] = last'.arg
                        THEN Some(ActiveEraInfo(NextActive, None))
                        ELSE ActiveEra
     /\ last'.op = "on_finalize"
        => IF IsSome(ActiveEra) /\ IsNone(Unwrap(ActiveEra).start)
           THEN /\ IsSome(ActiveEra')
                /\ Unwrap(ActiveEra').index = Unwrap(ActiveEra).index
                /\ IsSome(Unwrap(ActiveEra').start)
           ELSE ActiveEra' = ActiveEra
     /\ last'.op \notin {"start_session", "on_finalize"} => ActiveEra' = ActiveEra]_vars

\* An era made active by a flip, whose start was set in an earlier block
\* than the one on_finalize has just closed.
C14_Witness ==
  /\ last.op = "on_finalize"
  /\ IsSome(ActiveEra)
  /\ Unwrap(ActiveEra).index >= 1
  /\ IsSome(Unwrap(ActiveEra).start)
  /\ Unwrap(Unwrap(ActiveEra).start) < session.index

(***************************************************************************)
(* Specification of the bonding life cycle: a chain with one validator,    *)
(* where the funded account n1 and the empty account n2 bond through the   *)
(* controller c1, unbond, rebond and withdraw while an era is forced every *)
(* session, root unstakes n1 and anyone reaps n1 or n2.                    *)
(***************************************************************************)
BondBalances ==
  [a \in Accounts |-> CASE a = "v1" -> 300 [] a = "n1" -> 1000 [] OTHER -> 0]

BondStakers == << Staker("v1", "v1", 300, "Validator", <<>>) >>

\* Values of Currency::minimum_balance().
MinimumBalances == {0, 150}

InitBond ==
  \E minimum \in MinimumBalances :
    InitState(GenesisWithMinimum(
      GenesisConfig(BondBalances, LedgerCdds, "ForceAlways", 1, 1, 0, 0, BondStakers),
      minimum))

NextBond ==
  \/ GenesisNewSession
  \/ GenesisStartSession
  \/ EndSession(EraPayouts)
  \/ StartSession
  \/ NewSession
  \/ OnFinalize
  \/ BondTo({"n1", "n2"}, {"c1"}, {100, 500, 2000}, {"Controller"})
  \/ Unbond({"c1"}, {200, 400}, MaxChunks)
  \/ Rebond({"c1"}, {0, 100, 300})
  \/ WithdrawUnbonded({"c1"})
  \/ ForceUnstake({"n1"})
  \/ ReapStash({"n1", "n2"})

SpecBond == InitBond /\ [][NextBond]_vars

\* Everything the chain stores.
storage == <<currencyVars, cdd, configVars, ledgerVars, registryVars, eraVars,
             exposureVars, rewardVars, slashVars>>

\* C18: bond(stash, controller, value, payee) fails with AlreadyBonded when
\* the stash is bonded, else with AlreadyPaired when the controller has a
\* ledger, else with InsufficientValue when value is below the currency
\* minimum, and a failed call changes nothing; otherwise it stores the
\* ledger {stash, total = active = min(value, free balance), no chunks,
\* last_reward = current era} under the controller, Bonded[stash] =
\* controller, Payee[stash] = payee, locks total and changes nothing else.
C18_BondChecksThenCreatesLedger ==
  [][(last'.op = "bond" /\ last'.arg \in [controller : Accounts, value : Nat, payee : Payees])
       => LET stash == last'.who
              controller == last'.arg.controller
              value == Min(last'.arg.value, free[stash])
          IN CASE stash \in DOMAIN Bonded ->
                    last'.err = "AlreadyBonded" /\ storage' = storage
               [] stash \notin DOMAIN Bonded /\ controller \in DOMAIN Ledger ->
                    last'.err = "AlreadyPaired" /\ storage' = storage
               [] /\ stash \notin DOMAIN Bonded /\ controller \notin DOMAIN Ledger
                  /\ last'.arg.value < minimum_balance ->
                    last'.err = "InsufficientValue" /\ storage' = storage
               [] OTHER ->
                    /\ last'.err = "Ok"
                    /\ Ledger' = Insert(Ledger, controller,
                                        StakingLedger(stash, value, value, <<>>, CurrentEra))
                    /\ Bonded' = Insert(Bonded, stash, controller)
                    /\ Payee' = Insert(Payee, stash, last'.arg.payee)
                    /\ locks' = Insert(locks, stash, value)
                    /\ UNCHANGED <<free, minimum_balance, cdd, configVars, registryVars,
                                   eraVars, exposureVars, rewardVars, slashVars>>]_vars

\* n1 has bonded more than it holds: the ledger and the lock are clamped
\* to its free balance.
C18_Witness ==
  /\ last.op = "bond" /\ last.err = "Ok" /\ last.who = "n1"
  /\ last.arg.value > free["n1"]
  /\ "c1" \in DOMAIN Ledger
  /\ Ledger["c1"] = StakingLedger("n1", free["n1"], free["n1"], <<>>, CurrentEra)
  /\ IsSome(CurrentEra)
  /\ Payee["n1"] = "Controller"
  /\ locks["n1"] = free["n1"]

\* C19: a successful unbond(controller, value) takes u = min(value, active)
\* out of active, or the whole active when active - u would be below the
\* currency minimum, and appends one chunk holding the amount taken, which
\* matures at current era + BondingDuration; total and the older chunks
\* stay; when u is 0 the ledger is unchanged.  So a ledger {total 500,
\* active 500, no chunks} becomes, after unbond(200) over a minimum of at
\* most 300, {total 500, active 300, one chunk of 200}.
C19_UnbondMovesActiveIntoOneChunk ==
  [][(last'.op = "unbond" /\ last'.err = "Ok")
       => LET controller == last'.who
              ledger == Ledger[controller]
              u == Min(last'.arg, ledger.active)
              dust == ledger.active - u < minimum_balance
              taken == IF dust THEN ledger.active ELSE u
              era == UnwrapOr(CurrentEra, 0) + BondingDuration
          IN /\ controller \in DOMAIN Ledger
             /\ IF u = 0 THEN Ledger' = Ledger
                ELSE Ledger' = [Ledger EXCEPT ![controller] =
                       [ledger EXCEPT !.active = ledger.active - taken,
                                      !.unlocking = Append(@, UnlockChunk(taken, era))]]
             /\ Ledger'[controller].total = ledger.total
             /\ (ledger.total = 500 /\ ledger.active = 500 /\ ledger.unlocking = <<>>
                  /\ last'.arg = 200 /\ minimum_balance <= 300)
                => Ledger'[controller] =
                     [ledger EXCEPT !.active = 300,
                                    !.unlocking = <<UnlockChunk(200, era)>>]]_vars

\* The example: n1 bonded 500 of its 1000 and then unbonded 200.
C19_Witness ==
  /\ last.op = "unbond" /\ last.err = "Ok" /\ last.arg = 200
  /\ "c1" \in DOMAIN Ledger
  /\ free["n1"] = 1000
  /\ Ledger["c1"].stash = "n1"
  /\ Ledger["c1"].total = 500
  /\ Ledger["c1"].active = 300
  /\ Ledger["c1"].unlocking = <<UnlockChunk(200, Unwrap(CurrentEra) + BondingDuration)>>

\* The sum of the values of a queue of unlocking chunks.
RECURSIVE ChunkSum(_)
ChunkSum(unlocking) ==
  IF unlocking = <<>> THEN 0 ELSE Head(unlocking).value + ChunkSum(Tail(unlocking))

\* C20: rebond(controller, value) fails with NoUnlockChunk, changing
\* nothing, when the ledger has no chunk; otherwise it adds m = min(value,
\* sum of the chunks) to active and takes m from the newest chunks: the
\* queue keeps a prefix of the old one, its last kept chunk may hold less
\* than before (never 0) and every chunk before it is untouched; total is
\* unchanged and nothing but the ledger is written.
C20_RebondTakesNewestChunksFirst ==
  [][(last'.op = "rebond" /\ last'.who \in DOMAIN Ledger)
       => LET controller == last'.who
              ledger == Ledger[controller]
              after == Ledger'[controller]
              m == Min(last'.arg, ChunkSum(ledger.unlocking))
              n == Len(after.unlocking)
          IN IF ledger.unlocking = <<>>
             THEN last'.err = "NoUnlockChunk" /\ storage' = storage
             ELSE /\ last'.err = "Ok"
                  /\ Ledger' = [Ledger EXCEPT ![controller] = after]
                  /\ after.active = ledger.active + m
                  /\ after.total = ledger.total
                  /\ after.stash = ledger.stash /\ after.last_reward = ledger.last_reward
                  /\ ChunkSum(after.unlocking) = ChunkSum(ledger.unlocking) - m
                  /\ n <= Len(ledger.unlocking)
                  /\ \A k \in 1..n :
                       /\ after.unlocking[k].era = ledger.unlocking[k].era
                       /\ after.unlocking[k].value > 0
                       /\ after.unlocking[k].value <= ledger.unlocking[k].value
                       /\ k < n => after.unlocking[k] = ledger.unlocking[k]
                  /\ locks' = Insert(locks, ledger.stash, ledger.total)
                  /\ UNCHANGED <<free, Bonded, Payee, registryVars, eraVars>>]_vars

\* rebond(300) on the chunks (400, 200) of a ledger of 1000: the newest
\* chunk is consumed whole and the one before it shrinks to 300.
C20_Witness ==
  /\ last.op = "rebond" /\ last.err = "Ok" /\ last.arg = 300
  /\ "c1" \in DOMAIN Ledger
  /\ Ledger["c1"].total = 1000
  /\ Ledger["c1"].active = 700
  /\ Len(Ledger["c1"].unlocking) = 1
  /\ Ledger["c1"].unlocking[1].value = 300

(***************************************************************************)
(* Specification of the full unwinding of a stash: n1 bonds 500 through    *)
(* c1, nominates or declares itself a validator, unbonds, and withdraws    *)
(* once the chunks have matured; c1 keeps calling afterwards and root      *)
(* unstakes n1.                                                            *)
(***************************************************************************)
NextWithdraw ==
  \/ GenesisNewSession
  \/ GenesisStartSession
  \/ EndSession(EraPayouts)
  \/ StartSession
  \/ NewSession
  \/ OnFinalize
  \/ BondTo({"n1"}, {"c1"}, {500}, {"Controller"})
  \/ Nominate({"c1"}, {<<"v2">>})
  \/ Validate({"c1"}, {0})
  \/ Unbond({"c1"}, {200, 400}, MaxChunks)
  \/ Rebond({"c1"}, {100})
  \/ WithdrawUnbonded({"c1"})
  \/ ForceUnstake({"n1"})

SpecWithdraw == InitBond /\ [][NextWithdraw]_vars

\* The chunks of a queue that withdraw_unbonded keeps at era `current_era`.
Unmatured(unlocking, current_era) ==
  SelectSeq(unlocking, LAMBDA chunk : chunk.era > current_era)

\* C15: withdraw_unbonded by the controller of a ledger whose active is 0
\* and whose chunks have all matured removes the Bonded, Ledger, Payee,
\* Validators and Nominators entries of the stash and its lock, and leaves
\* the entries of every other stash; in every other case it keeps the
\* records, stores the ledger without its matured chunks, total reduced by
\* their sum, and locks that total.  Calls by a controller without a
\* ledger fail with NotController, force_unstake of a stash that is not
\* bonded fails with NotStash, and both change nothing.
C15_WithdrawUnwindsTheEmptyLedger ==
  [][/\ (last'.op = "withdraw_unbonded" /\ last'.who \in DOMAIN Ledger)
        => LET controller == last'.who
               ledger == Ledger[controller]
               stash == ledger.stash
               kept == IF IsSome(CurrentEra)
                       THEN Unmatured(ledger.unlocking, Unwrap(CurrentEra))
                       ELSE ledger.unlocking
           IN /\ last'.err = "Ok"
              /\ IF ledger.active = 0 /\ kept = <<>>
                 THEN /\ Bonded' = Remove(Bonded, stash)
                      /\ Ledger' = Remove(Ledger, controller)
                      /\ Payee' = Remove(Payee, stash)
                      /\ Validators' = Remove(Validators, stash)
                      /\ Nominators' = Remove(Nominators, stash)
                      /\ locks' = Remove(locks, stash)
                      /\ stash \notin DOMAIN Bonded' \cup DOMAIN Payee' \cup DOMAIN locks'
                      /\ stash \notin DOMAIN Validators' \cup DOMAIN Nominators'
                      /\ \A c \in DOMAIN Ledger' : Ledger'[c].stash # stash
                 ELSE /\ UNCHANGED <<Bonded, Payee, Validators, Nominators>>
                      /\ Ledger' = [Ledger EXCEPT ![controller] =
                            [ledger EXCEPT
                               !.unlocking = kept,
                               !.total = @ - (ChunkSum(ledger.unlocking) - ChunkSum(kept))]]
                      /\ locks' = Insert(locks, stash, Ledger'[controller].total)
     /\ (/\ last'.op \in {"unbond", "rebond", "withdraw_unbonded", "validate", "nominate"}
         /\ last'.who \notin DOMAIN Ledger)
        => last'.err = "NotController" /\ storage' = storage
     /\ (last'.op = "force_unstake" /\ last'.who \notin DOMAIN Bonded)
        => last'.err = "NotStash" /\ storage' = storage]_vars

\* withdraw_unbonded has unwound n1, which had bonded 500: nothing of it
\* is left and its balance is free again.
C15_Witness ==
  /\ last.op = "withdraw_unbonded" /\ last.err = "Ok" /\ last.arg = Some("n1")
  /\ "c1" \notin DOMAIN Ledger
  /\ "n1" \notin DOMAIN Bonded \cup DOMAIN Payee \cup DOMAIN locks
  /\ "n1" \notin DOMAIN Validators \cup DOMAIN Nominators
  /\ free["n1"] = 1000

\* The controllers whose ledger is the ledger of `stash`.
LedgersOf(stash) == {c \in DOMAIN Ledger : Ledger[c].stash = stash}

\* Every stash with a ledger carries the lock, of the ledger's total, and
\* no other account carries it.
LockMatchesLedger ==
  \A stash \in Accounts :
    /\ stash \in DOMAIN locks <=> LedgersOf(stash) # {}
    /\ \A c \in LedgersOf(stash) : locks[stash] = Ledger[c].total

\* C16: in every reachable state a stash carries the staking lock if and
\* only if a ledger exists for it, and the locked amount is that ledger's
\* total; a lock disappears only in a successful withdraw_unbonded,
\* force_unstake or reap_stash, together with the ledger of its stash.
C16_LockIffLedger ==
  /\ []LockMatchesLedger
  /\ [][\A stash \in DOMAIN locks \ DOMAIN locks' :
          /\ last'.op \in {"withdraw_unbonded", "force_unstake", "reap_stash"}
          /\ last'.err = "Ok"
          /\ \A c \in LedgersOf(stash) : c \notin DOMAIN Ledger'
          /\ stash \notin DOMAIN Bonded']_vars

\* force_unstake has removed the ledger of n1 and, with it, its lock.
C16_Witness ==
  /\ last.op = "force_unstake" /\ last.err = "Ok" /\ last.who = "n1"
  /\ "n1" \notin DOMAIN locks
  /\ LedgersOf("n1") = {}
  /\ LockMatchesLedger

(***************************************************************************)
(* Specification of the unlocking queue at its limit: in the first session *)
(* the validator v1 and its nominator n1 unbond 1 at a time, as often as   *)
(* they like; the CDD claim of n1 expires and v1 reports it.               *)
(***************************************************************************)
ChunkBalances == [a \in Accounts |-> IF a \in {"v1", "n1"} THEN 40 ELSE 0]

ChunkStakers ==
  << Staker("v1", "v1", 40, "Validator", <<>>),
     Staker("n1", "n1", 40, "Nominator", <<"v1">>) >>

InitChunks ==
  InitState(Genesis(GenesisConfig(ChunkBalances, LedgerCdds, "NotForcing", 1, 1, 0, 0,
                                  ChunkStakers)))

NextChunks ==
  \/ GenesisNewSession
  \/ GenesisStartSession
  \/ OnFinalize
  \/ Unbond({"v1", "n1"}, {1}, MAX_UNLOCKING_CHUNKS + 1)
  \/ CddChange({"n1"}, {"expired"})
  \/ ValidateCddExpiryNominators({"v1"}, {<<"n1">>})

SpecChunks == InitChunks /\ [][NextChunks]_vars

\* No ledger holds more than MAX_UNLOCKING_CHUNKS unlocking chunks.
QueuesWithinLimit ==
  \A c \in DOMAIN Ledger : Len(Ledger[c].unlocking) <= MAX_UNLOCKING_CHUNKS

\* C17: in every reachable state every unlocking queue holds at most
\* MAX_UNLOCKING_CHUNKS chunks; unbond on a ledger whose queue is full
\* fails with NoMoreChunks and changes nothing, and
\* validate_cdd_expiry_nominators leaves a ledger whose queue is full as
\* it is.
C17_UnlockingQueueBounded ==
  /\ []QueuesWithinLimit
  /\ [][((last'.op = "unbond" /\ last'.who \in DOMAIN Ledger)
            => ((Len(Ledger[last'.who].unlocking) = MAX_UNLOCKING_CHUNKS)
                 => (last'.err = "NoMoreChunks" /\ storage' = storage)))
        /\ (last'.op = "validate_cdd_expiry_nominators"
            => \A c \in DOMAIN Ledger :
                 (Len(Ledger[c].unlocking) = MAX_UNLOCKING_CHUNKS)
                   => (c \in DOMAIN Ledger' /\ Ledger'[c] = Ledger[c]))]_vars

\* unbond has just been refused on the full queue of v1, and the queue of
\* n1, whose CDD claim has expired while it nominates with stake left, is
\* full as well.
C17_Witness ==
  /\ last.op = "unbond" /\ last.err = "NoMoreChunks" /\ last.who = "v1"
  /\ Len(Ledger["v1"].unlocking) = MAX_UNLOCKING_CHUNKS
  /\ Len(Ledger["n1"].unlocking) = MAX_UNLOCKING_CHUNKS
  /\ Ledger["n1"].active > 0
  /\ "n1" \in DOMAIN Nominators
  /\ cdd["n1"] = "expired"

(***************************************************************************)
(* Specification of the ledger slash: n1 bonds 150 through c1, unbonds 50  *)
(* at a time while an era is planned every session, and its ledger is      *)
(* slashed by 30, 75 or 125, over a currency minimum of 0 or 25.           *)
(***************************************************************************)
DrainMinimums == {0, 25}

InitDrain ==
  \E minimum \in DrainMinimums :
    InitState(GenesisWithMinimum(
      GenesisConfig(BondBalances, LedgerCdds, "ForceAlways", 1, 1, 0, 0, BondStakers),
      minimum))

NextDrain ==
  \/ GenesisNewSession
  \/ GenesisStartSession
  \/ EndSession(EraPayouts)
  \/ StartSession
  \/ NewSession
  \/ OnFinalize
  \/ BondTo({"n1"}, {"c1"}, {150}, {"Controller"})
  \/ Unbond({"c1"}, {50}, MaxChunks)
  \/ SlashLedger({"n1"}, {30, 75, 125})

SpecDrain == InitDrain /\ [][NextDrain]_vars

\* The ledger of a bonded stash.
LedgerOfStash(stash) == Ledger[Bonded[stash]]

\* C21: a ledger slash of v (a) returns the decrease of total, which is
\* at least min(v, old total), at most old total, and exceeds v by at most
\* the minimum balance (the dust of the last drained target); (b) leaves
\* of the queue a suffix of the old one, whose first chunk alone may hold
\* less than before, so chunks are drained from the front and the fully
\* drained ones are removed; (c) touches a chunk only when active is
\* drained to 0; (d) leaves no drained target at or below the minimum
\* balance other than at 0; (e) keeps total = active + chunks.
C21_SlashDrainsActiveThenFront ==
  [][(last'.op = "slash")
       => LET before == LedgerOfStash(last'.who)
              after == Ledger'[Bonded[last'.who]]
              v == last'.arg
              slashed == before.total - after.total
              drained == Len(before.unlocking) - Len(after.unlocking)
              shrunk == after.unlocking # <<>>
                        /\ after.unlocking[1].value < before.unlocking[drained + 1].value
          IN /\ last'.ret = Some(slashed)
             /\ slashed >= Min(v, before.total) /\ slashed <= before.total
             /\ slashed <= v + minimum_balance
             /\ drained >= 0
             /\ \A k \in 1..Len(after.unlocking) :
                  /\ after.unlocking[k].era = before.unlocking[drained + k].era
                  /\ after.unlocking[k].value > 0
                  /\ after.unlocking[k].value <= before.unlocking[drained + k].value
                  /\ k > 1 => after.unlocking[k] = before.unlocking[drained + k]
             /\ after.active <= before.active
             /\ (drained > 0 \/ shrunk) => after.active = 0
             /\ after.active < before.active
                  => (after.active = 0 \/ after.active > minimum_balance)
             /\ shrunk => after.unlocking[1].value > minimum_balance
             /\ after.total = after.active + ChunkSum(after.unlocking)
             /\ after.stash = before.stash]_vars

\* A slash of 125 on {active 50, chunks (50, 50)}: active and the first
\* chunk are drained, the first chunk is removed and the second shrinks
\* to 25.
C21_Witness ==
  /\ last.op = "slash" /\ last.arg = 125 /\ last.ret = Some(125)
  /\ "n1" \in DOMAIN Bonded
  /\ LedgerOfStash("n1").total = 25
  /\ LedgerOfStash("n1").active = 0
  /\ Len(LedgerOfStash("n1").unlocking) = 1
  /\ LedgerOfStash("n1").unlocking[1].value = 25
  /\ minimum_balance = 0

\* A slash step on the ledger of Scenario D: active 100 and one unlocking
\* chunk of 50, slashed by 75, which is 50% of its total.
ScenarioD ==
  /\ last'.op = "slash" /\ last'.arg = 75
  /\ LedgerOfStash(last'.who).active = 100
  /\ Len(LedgerOfStash(last'.who).unlocking) = 1
  /\ LedgerOfStash(last'.who).unlocking[1].value = 50
  /\ LedgerOfStash(last'.who).total = 150

\* C22 as stated: Scenario D leaves active 0, the chunk at 25 and total
\* reduced by 75.
C22_ScenarioDLeavesChunkAt25 ==
  [][ScenarioD
       => LET after == Ledger'[Bonded[last'.who]]
          IN /\ after.active = 0
             /\ Len(after.unlocking) = 1
             /\ after.unlocking[1].value = 25
             /\ after.total = 150 - 75]_vars

\* C22: Scenario D never reaches the chunk, which stays at 50: over a
\* minimum balance below 25 active is left at 25 and total is reduced by
\* 75; over a minimum balance of 25 or more the dust rule zeroes active
\* and total is reduced by 100.
C22_ScenarioDLeavesTheChunk ==
  [][ScenarioD
       => LET after == Ledger'[Bonded[last'.who]]
          IN /\ Len(after.unlocking) = 1
             /\ after.unlocking[1].value = 50
             /\ after.unlocking[1].era = LedgerOfStash(last'.who).unlocking[1].era
             /\ IF minimum_balance < 25
                  THEN after.active = 25 /\ after.total = 75 /\ last'.ret = Some(75)
                  ELSE after.active = 0 /\ after.total = 50 /\ last'.ret = Some(100)]_vars

\* Scenario D over a minimum balance of 25: the dust rule has zeroed
\* active and the chunk of 50 is all that is left.
C22_Witness ==
  /\ last.op = "slash" /\ last.arg = 75 /\ last.ret = Some(100)
  /\ minimum_balance = 25
  /\ "n1" \in DOMAIN Bonded
  /\ LedgerOfStash("n1").active = 0
  /\ LedgerOfStash("n1").total = 50
  /\ Len(LedgerOfStash("n1").unlocking) = 1
  /\ LedgerOfStash("n1").unlocking[1].value = 50

(***************************************************************************)
(* Specification of the reward arithmetic: v1 (own 100) is backed by n1    *)
(* (300), n2 (250), v3 (200) and c1 (150), 1000 in total, beside the       *)
(* validator v2; an era is planned every session and pays 1000.  v1        *)
(* declares a commission of 10% or of 0, which the eras planned afterwards *)
(* snapshot; the chain is one session longer so that such an era ends.     *)
(***************************************************************************)
RewardBalances ==
  [a \in Accounts |-> CASE a = "v1" -> 100 [] a = "v2" -> 50 [] a = "n1" -> 300
                        [] a = "n2" -> 250 [] a = "v3" -> 200 [] a = "c1" -> 150]

RewardCdds == [a \in Accounts |-> "long"]

RewardStakers ==
  << Staker("v1", "v1", 100, "Validator", <<>>),
     Staker("v2", "v2", 50, "Validator", <<>>),
     Staker("n1", "n1", 300, "Nominator", <<"v1">>),
     Staker("n2", "n2", 250, "Nominator", <<"v1">>),
     Staker("v3", "v3", 200, "Nominator", <<"v1">>),
     Staker("c1", "c1", 150, "Nominator", <<"v1">>) >>

\* Value of inflation::compute_total_payout recorded for an era.
RewardPayouts == {1000}
\* Commissions of v1, in parts of Accuracy: 0 and 10%.
RewardCommissions == {0, Accuracy \div 10}
\* The eras whose blocks earn points and whose rewards are claimed.
RewardEras == {2}
\* The points of one authored block.
AuthorPoints == 20

\* Argument lists of payout_nominator: the first entry of v1's clipped
\* exposure, the second, both, and one entry more than MAX_NOMINATIONS.
RewardLists ==
  { <<<<"v1", 0>>>>, <<<<"v1", 1>>>>, <<<<"v1", 1>>, <<"v1", 0>>>>,
    [k \in 1..(MAX_NOMINATIONS + 1) |-> <<"v1", 0>>] }

InitReward ==
  InitState(Genesis(GenesisConfig(RewardBalances, RewardCdds, "ForceAlways", 2, 1, 0, 0,
                                  RewardStakers)))

NextReward ==
  \/ GenesisNewSession
  \/ GenesisStartSession
  \/ EndSessionWithin(RewardPayouts, MaxSession + 1)
  \/ StartSession
  \/ NewSession
  \/ OnFinalize
  \/ Validate({"v1"}, RewardCommissions)
  \/ NoteAuthor(RewardEras, 2 * AuthorPoints)
  \/ PayoutValidator({"v1"}, RewardEras)
  \/ PayoutNominator({"n1", "n2"}, RewardEras, RewardLists)

SpecReward == InitReward /\ [][NextReward]_vars

\* The points of validator v in an era and of the whole era, counted in
\* authored blocks.
PointUnits(era, v) == Get(eras_reward_points(Cur, era).individual, v, 0) \div AuthorPoints
TotalUnits(era) == eras_reward_points(Cur, era).total \div AuthorPoints

\* amount is the fraction num / den, up to one unit of balance.
EqualsFraction(amount, num, den) ==
  /\ (amount - 1) * den < num
  /\ num < (amount + 1) * den

\* point_share x (commission + (1 - commission) x own / total) x era_payout
\* for the validator `stash` in `era`, from the snapshot of the era.
IsValidatorReward(amount, stash, era) ==
  LET exposure == eras_stakers(Cur, era, stash)
      commission == eras_validator_prefs(Cur, era, stash).commission
  IN IF TotalUnits(era) = 0 \/ exposure.total = 0 THEN amount = 0
     ELSE EqualsFraction(amount,
            PointUnits(era, stash)
              * (commission * exposure.total + (Accuracy - commission) * exposure.own)
              * ErasValidatorReward[era],
            TotalUnits(era) * Accuracy * exposure.total)

\* point_share x (1 - commission) x (value / total) x era_payout for the
\* entry `index` of the clipped exposure of `validator` in `era`.
IsNominatorReward(amount, validator, index, era) ==
  LET exposure == eras_stakers_clipped(Cur, era, validator)
      commission == eras_validator_prefs(Cur, era, validator).commission
  IN IF TotalUnits(era) = 0 THEN amount = 0
     ELSE EqualsFraction(amount,
            PointUnits(era, validator) * (Accuracy - commission)
              * exposure.others[index + 1].value * ErasValidatorReward[era],
            TotalUnits(era) * Accuracy * exposure.total)

\* The pair (validator, index) names the entry of `stash` in the clipped
\* exposure of the validator in `era`.
CorrectlyIndexed(stash, era, pair) ==
  /\ pair[2] + 1 <= Len(eras_stakers_clipped(Cur, era, pair[1]).others)
  /\ eras_stakers_clipped(Cur, era, pair[1]).others[pair[2] + 1].who = stash

\* C23: the amount paid by a successful payout_validator is point_share x
\* (commission + (1 - commission) x own / total) x era_payout, and the
\* amount paid by a successful payout_nominator listing one correctly
\* indexed validator is point_share x (1 - commission) x value / total x
\* era_payout, up to the rounding of the shares, with the commission and
\* the exposure stored for the era; with own 100, total 1000, commission
\* 10%, era payout 1000 and all the points the validator is paid 190 and
\* the nominator with value 300 is paid 270.
C23_PayoutFollowsTheEraSnapshot ==
  [][(last'.err = "Ok" /\ last'.op \in {"payout_validator", "payout_nominator"})
       => LET stash == Ledger[last'.who].stash
              era == last'.era
              amount == Unwrap(last'.ret)
              full == /\ PointUnits(era, "v1") = TotalUnits(era) /\ TotalUnits(era) > 0
                      /\ eras_validator_prefs(Cur, era, "v1").commission = Accuracy \div 10
                      /\ eras_stakers(Cur, era, "v1").own = 100
                      /\ eras_stakers(Cur, era, "v1").total = 1000
                      /\ ErasValidatorReward[era] = 1000
          IN /\ (last'.op = "payout_validator")
                  => /\ IsValidatorReward(amount, stash, era)
                     /\ (full /\ stash = "v1") => amount = 190
             /\ (last'.op = "payout_nominator" /\ Len(last'.arg) = 1
                   /\ CorrectlyIndexed(stash, era, last'.arg[1]))
                  => /\ IsNominatorReward(amount, last'.arg[1][1], last'.arg[1][2], era)
                     /\ (full /\ last'.arg[1][1] = "v1"
                           /\ eras_stakers_clipped(Cur, era, "v1").others[last'.arg[1][2] + 1].value = 300)
                          => amount = 270]_vars

\* v1 has declared 0 again after era 2 took the snapshot of its 10%, has
\* earned all the points of era 2 and has been paid 190; n1 is paid 270.
C23_Witness ==
  /\ last.op = "payout_nominator" /\ last.err = "Ok" /\ last.who = "n1"
  /\ last.era = 2 /\ last.ret = Some(270)
  /\ Ledger["v1"].last_reward = Some(2)
  /\ Ledger["v1"].total = 100 + 190
  /\ Validators["v1"].commission = 0
  /\ eras_validator_prefs(Cur, 2, "v1").commission = Accuracy \div 10

\* The entries of a payout_nominator list that are correctly indexed for
\* `stash` in `era`.
CorrectEntries(stash, era, validators) ==
  SelectSeq(validators, LAMBDA pair : CorrectlyIndexed(stash, era, pair))

\* C24: a successful payout_nominator sets last_reward to the claimed era
\* and pays the correctly indexed entries of its list only: nothing when
\* every entry is out of range or names another nominator's entry, the
\* reward of the one correct entry when the others are not; a claim of an
\* era not after last_reward fails with InvalidEraToReward and a list of
\* more than MAX_NOMINATIONS entries fails with
\* InvalidNumberOfNominations, both leaving the storage as it was.
C24_WrongIndexForfeitsTheShare ==
  [][(last'.op = "payout_nominator")
       => LET who == last'.who
              era == last'.era
              correct == CorrectEntries(Ledger[who].stash, era, last'.arg)
          IN /\ Len(last'.arg) > MAX_NOMINATIONS
                  => (last'.err = "InvalidNumberOfNominations" /\ storage' = storage)
             /\ (Len(last'.arg) <= MAX_NOMINATIONS /\ already_rewarded(Ledger[who], era))
                  => (last'.err = "InvalidEraToReward" /\ storage' = storage)
             /\ (Len(last'.arg) <= MAX_NOMINATIONS /\ era \in DOMAIN ErasValidatorReward
                   /\ ~already_rewarded(Ledger[who], era))
                  => /\ last'.err = "Ok"
                     /\ IsSome(Ledger'[who].last_reward)
                     /\ Ledger'[who].last_reward[1] = last'.era
                     /\ Len(correct) = 0
                          => (last'.ret = Some(0) /\ free' = free
                              /\ Ledger'[who].total = Ledger[who].total)
                     /\ Len(correct) = 1
                          => IsNominatorReward(Unwrap(last'.ret), correct[1][1],
                                               correct[1][2], era)]_vars

\* n2 has claimed era 2, in which v1 earned points, with an index that
\* does not name its entry: it is paid nothing and era 2 is closed for it.
C24_Witness ==
  /\ last.op = "payout_nominator" /\ last.err = "Ok" /\ last.who = "n2"
  /\ last.era = 2 /\ last.ret = Some(0)
  /\ PointUnits(2, "v1") > 0
  /\ Ledger["n2"].last_reward = Some(2)
  /\ Ledger["n2"].total = 250
  /\ free["n2"] = 250

(***************************************************************************)
(* Specification of the reward destinations: v1 (controller c1, own 100,   *)
(* backed by n1 with 300) chooses its destination; v2 is a validator whose *)
(* stash holds nothing and has bonded 0, and declares a commission of 10%. *)
(***************************************************************************)
PayeeBalances ==
  [a \in Accounts |-> CASE a = "v1" -> 100 [] a = "c1" -> 10 [] a = "n1" -> 300
                        [] OTHER -> 0]

PayeeStakers ==
  << Staker("v1", "c1", 100, "Validator", <<>>),
     Staker("v2", "v2", 0, "Validator", <<>>),
     Staker("n1", "n1", 300, "Nominator", <<"v1">>) >>

\* The eras whose blocks earn points and whose rewards are claimed.
PayeeEras == {0, 2}

InitPayee ==
  InitState(Genesis(GenesisConfig(PayeeBalances, RewardCdds, "ForceAlways", 2, 1, 0, 0,
                                  PayeeStakers)))

NextPayee ==
  \/ GenesisNewSession
  \/ GenesisStartSession
  \/ EndSessionWithin(RewardPayouts, MaxSession + 1)
  \/ StartSession
  \/ NewSession
  \/ OnFinalize
  \/ SetPayee({"c1"}, Payees)
  \/ Validate({"v2"}, {Accuracy \div 10})
  \/ NoteAuthor(PayeeEras, AuthorPoints)
  \/ PayoutValidator({"c1", "v2"}, PayeeEras)

SpecPayee == InitPayee /\ [][NextPayee]_vars

InitCommission ==
  InitState(GenesisWithCommission(
    GenesisConfig(BondBalances, LedgerCdds, "NotForcing", 1, 1, 0, 0, BondStakers),
    Some(0)))

NextCommission ==
  \/ GenesisNewSession
  \/ GenesisStartSession
  \/ OnFinalize
  \/ SetGlobalCommission(RewardCommissions)
  \/ EnableIndividualCommissions
  \/ SetMinBondThreshold({0, 150})
  \/ BondTo({"n1"}, {"c1"}, {100, 200}, {"Staked"})
  \/ Nominate({"c1"}, {<<"v1">>})
  \/ Validate({"v1", "c1"}, RewardCommissions)

SpecCommission == InitCommission /\ [][NextCommission]_vars

\* validate(controller, prefs) meets its conditions in the present state.
ValidateAllowed(controller, commission) ==
  /\ controller \in DOMAIN Ledger
  /\ Ledger[controller].active >= MinimumBondThreshold
  /\ IsSome(ValidatorCommission) => commission = Unwrap(ValidatorCommission)

\* C26: validate succeeds exactly when the controller has a ledger whose
\* active stake is at least MinimumBondThreshold and, under a global
\* commission, prefs.commission equals it; on success the stash has no
\* nomination and its declaration holds the preferences, nothing else
\* changes; a commission that differs from the global one fails with
\* InvalidCommission; every failure, a repeated one included, leaves
\* the storage as it was.
C26_ValidateChecksBondAndCommission ==
  [][(last'.op = "validate")
       => LET controller == last'.who
              commission == last'.arg
          IN /\ (last'.err = "Ok") <=> ValidateAllowed(controller, commission)
             /\ (last'.err = "Ok")
                  => LET stash == Ledger[controller].stash
                     IN /\ Nominators' = Remove(Nominators, stash)
                        /\ Validators' = Insert(Validators, stash, [commission |-> commission])
                        /\ Ledger' = Ledger /\ Bonded' = Bonded
                        /\ ValidatorCommission' = ValidatorCommission
             /\ (last'.err # "Ok") => storage' = storage
             /\ (controller \in DOMAIN Ledger
                   /\ Ledger[controller].active >= MinimumBondThreshold
                   /\ ~ValidateAllowed(controller, commission))
                  => last'.err = "InvalidCommission"
             /\ (last.op = "validate" /\ last.err = "InvalidCommission"
                   /\ last'.who = last.who /\ last'.arg = last.arg)
                  => (last'.err = "InvalidCommission" /\ storage' = storage)]_vars

\* c1, the controller of the nominator n1, has declared 0 under a global
\* commission of 10%: the call failed, n1 still nominates and does not
\* validate.
C26_Witness ==
  /\ last.op = "validate" /\ last.who = "c1" /\ last.arg = 0
  /\ last.err = "InvalidCommission"
  /\ ValidatorCommission = Some(Accuracy \div 10)
  /\ "n1" \in DOMAIN Nominators
  /\ "n1" \notin DOMAIN Validators
  /\ Validators["v1"].commission = Accuracy \div 10

(***************************************************************************)
(* Specification of the nominations: n1 bonds 100 through c1 beside the    *)
(* validator v1; the identity module gives n1 every CDD state; c1          *)
(* nominates no target, v1, or a list one longer than MAX_NOMINATIONS, and *)
(* may declare itself a validator.                                         *)
(***************************************************************************)
NominateLists ==
  { <<>>, <<"v1">>, [k \in 1..(MAX_NOMINATIONS + 1) |-> IF k = 1 THEN "v2" ELSE "v1"] }

InitNominate ==
  InitState(Genesis(GenesisConfig(BondBalances, LedgerCdds, "ForceAlways", 1, 1, 0, 0,
                                  BondStakers)))

NextNominate ==
  \/ GenesisNewSession
  \/ GenesisStartSession
  \/ EndSession(EraPayouts)
  \/ StartSession
  \/ NewSession
  \/ OnFinalize
  \/ BondTo({"n1"}, {"c1"}, {100}, {"Staked"})
  \/ CddChange({"n1"}, CddStates)
  \/ Validate({"c1"}, {0})
  \/ Nominate({"c1"}, NominateLists)

SpecNominate == InitNominate /\ [][NextNominate]_vars

\* C27: nominate by a controller with a ledger fails with EmptyTargets on
\* an empty list and with NotCompliant when the stash has no identity or
\* no CDD claim valid through the bonding-duration lookahead, Nominators
\* and Validators unchanged in both cases; a successful call stores the
\* first MAX_NOMINATIONS targets with submitted_in = the current era and
\* removes the stash's validator declaration.
C27_NominateRejectsNonCompliant ==
  [][(last'.op = "nominate" /\ last'.who \in DOMAIN Ledger)
       => LET stash == Ledger[last'.who].stash
              targets == last'.arg
              compliant == get_identity(Cur, stash) /\ fetch_cdd_leeway(Cur, stash)
          IN /\ (targets = <<>>)
                  => /\ last'.err = "EmptyTargets"
                     /\ Nominators' = Nominators /\ Validators' = Validators
             /\ (targets # <<>> /\ ~compliant)
                  => /\ last'.err = "NotCompliant"
                     /\ Nominators' = Nominators /\ Validators' = Validators
             /\ (last'.err = "Ok")
                  => /\ stash \in DOMAIN Nominators'
                     /\ Nominators'[stash].targets
                          = SubSeq(targets, 1, Min(Len(targets), MAX_NOMINATIONS))
                     /\ Nominators'[stash].submitted_in = current_era_or_0(Cur)
                     /\ stash \notin DOMAIN Validators']_vars

(***************************************************************************)
(* Specification of the failing calls: a chain of one rotation under a     *)
(* global commission of 0 and a slash deferral of one era, with the        *)
(* validators v1 and v2 (30 each), in which n1 (free 100) may bond through *)
(* c1 and every dispatchable is called with arguments that pass and        *)
(* arguments that fail.                                                    *)
(***************************************************************************)
ErrorBalances ==
  [a \in Accounts |-> CASE a \in {"v1", "v2"} -> 30 [] a = "n1" -> 100 [] OTHER -> 0]

InitErrors ==
  InitState(GenesisWithCommission(
    GenesisConfig(ErrorBalances, LedgerCdds, "ForceAlways", 2, 1, 1, 0, SlashStakers),
    Some(0)))

NextErrors ==
  \/ GenesisNewSession
  \/ GenesisStartSession
  \/ EndSessionWithin(RewardPayouts, MaxSession - 1)
  \/ StartSession
  \/ NewSession
  \/ OnFinalize
  \/ OnOffence({Accuracy \div 10}, 1)
  \/ BondTo({"n1"}, {"c1"}, {100}, {"Staked"})
  \/ BondExtra({"n1"}, {100})
  \/ Unbond({"c1"}, {100}, MaxChunks)
  \/ Rebond({"c1"}, {100})
  \/ WithdrawUnbonded({"c1"})
  \/ Validate({"c1"}, {Accuracy \div 10})
  \/ Nominate({"c1"}, {<<>>, <<"n2">>})
  \/ Chill({"c1"})
  \/ SetPayee({"c1"}, {"Staked"})
  \/ SetController({"n1"}, {"v1"})
  \/ PayoutValidator({"v1"}, {0})
  \/ PayoutNominator({"c1"}, {0}, {<<<<"v1", 0>>>>, [k \in 1..(MAX_NOMINATIONS + 1) |-> <<"v1", 0>>]})
  \/ CancelDeferredSlash({"Root", "Signed"}, {0}, {<<0>>, <<0, 0>>, <<0, 1>>})
  \/ AddPermissionedValidator({"v1"})
  \/ RemovePermissionedValidator({"Root"}, {"v1"})
  \/ SetGlobalCommission({0})
  \/ EnableIndividualCommissions
  \/ ForceUnstake({"n1"})
  \/ ReapStash({"n1"})
  \/ ValidateCddExpiryNominators({"v1", "c1"}, {<<>>, <<"n1">>})

SpecErrors == InitErrors /\ [][NextErrors]_vars

\* The dispatchables of the claim.
Dispatchables ==
  {"bond", "bond_extra", "unbond", "rebond", "withdraw_unbonded", "validate", "nominate",
   "chill", "set_payee", "set_controller", "payout_validator", "payout_nominator",
   "cancel_deferred_slash", "add_permissioned_validator", "remove_permissioned_validator",
   "set_global_commission", "enable_individual_commissions", "force_unstake",
   "reap_stash", "validate_cdd_expiry_nominators"}

\* C28: a call of one of the dispatchables that returns an error leaves
\* everything the chain stores as it was before the call.
C28_FailedCallsChangeNothing ==
  [][(last'.op \in Dispatchables /\ last'.err # "Ok") => storage' = storage]_vars

\* cancel_deferred_slash([0, 1]) on a queue of one slash has failed at its
\* second index, after the removal of the first: the queue still holds the
\* slash.
C28_Witness ==
  /\ last.op = "cancel_deferred_slash" /\ last.err = "InvalidSlashIndex"
  /\ last.arg = <<0, 1>>
  /\ 0 \in DOMAIN UnappliedSlashes
  /\ Len(UnappliedSlashes[0]) = 1

(***************************************************************************)
(* Specification of the deferral of the configured runtime: the chain of   *)
(* SpecSlash with the runtime's ratio of SlashDeferDuration to             *)
(* BondingDuration, in which the validators may unbond and withdraw.       *)
(***************************************************************************)
\* runtime.rs: BondingDuration and SlashDeferDuration of the runtime.
RuntimeBondingDuration == 28

RuntimeSlashDeferDuration == 24 * 7

\* The deferral that is to BondingDuration what the runtime's is to the
\* runtime's bonding duration.
ScaledSlashDeferDuration ==
  (RuntimeSlashDeferDuration * BondingDuration) \div RuntimeBondingDuration

InitDefer ==
  InitState(Genesis(GenesisConfig(SlashBalances, LedgerCdds, "ForceAlways", 2, 1,
                                  ScaledSlashDeferDuration, 0, SlashStakers)))

NextDefer ==
  \/ GenesisNewSession
  \/ GenesisStartSession
  \/ EndSessionWithin(RewardPayouts, MaxSession + BondingDuration)
  \/ StartSession
  \/ NewSession
  \/ OnFinalize
  \/ OnOffence({Accuracy \div 2}, 1)
  \/ Unbond({"v1", "v2"}, {30}, MaxChunks)
  \/ WithdrawUnbonded({"v1", "v2"})

SpecDefer == InitDefer /\ [][NextDefer]_vars

\* The chunks of `ledger` that withdraw_unbonded releases in era
\* `current_era` and that were unbonded after every report of active era
\* `a`: unbond dates a chunk BondingDuration after the current era, which
\* is at most a + 1 while era a is active.
BondedAtReport(ledger, a, current_era) ==
  {k \in 1..Len(ledger.unlocking) :
     /\ ledger.unlocking[k].era <= current_era
     /\ ledger.unlocking[k].era > a + 1 + BondingDuration}

\* C29: withdraw_unbonded releases no stake of a validator that was bonded
\* when an offence of that validator was reported, as long as the slash
\* deferred for the offence is in the queue of its era.
C29_BondedStakeStaysUntilTheSlash ==
  [][(last'.op = "withdraw_unbonded" /\ last'.err = "Ok") =>
       \A a \in DOMAIN UnappliedSlashes :
         \A k \in 1..Len(UnappliedSlashes[a]) :
           LET stash == UnappliedSlashes[a][k].validator IN
           (stash \in DOMAIN Bonded /\ Bonded[stash] = last'.who) =>
             BondedAtReport(Ledger[last'.who], a, Unwrap(CurrentEra)) = {}]_vars

(***************************************************************************)
(* Specification of the history: the chain of SpecSlash with a new era in  *)
(* every session, every election succeeding, and root setting the depth   *)
(* of the history.                                                         *)
(***************************************************************************)
InitHistory ==
  InitState(Genesis(GenesisConfig(SlashBalances, LedgerCdds, "ForceAlways", 2, 1, 0, 0,
                                  SlashStakers)))

NextHistory ==
  \/ GenesisNewSession
  \/ GenesisStartSession
  \/ EndSession(SchedPayouts)
  \/ StartSession
  \/ NewSession
  \/ OnFinalize
  \/ SetHistoryDepth(HistoryDepths \cup {DefaultHistoryDepth})

SpecHistory == InitHistory /\ [][NextHistory]_vars

\* The information new_era and start_era have stored for era `era` is
\* there.
EraInformationKept(era) ==
  /\ era \in DOMAIN ErasStartSessionIndex
  /\ era \in DOMAIN ErasStakers
  /\ era \in DOMAIN ErasStakersClipped

\* C30: the active era is in history, active_era > current_era -
\* history_depth, and its start session index and its exposures are
\* stored.
C30_ActiveEraIsInHistory ==
  IsSome(ActiveEra) =>
    /\ ActiveIndex > Unwrap(CurrentEra) - HistoryDepth
    /\ EraInformationKept(ActiveIndex)

(***************************************************************************)
(* Specification of the permissioned validators: the chain of SpecSlash    *)
(* without offences, in which root and the signed account n1 add and       *)
(* remove permissioned validators.                                         *)
(***************************************************************************)
PermissionOrigins == {"Root", "n1"}

PermissionStashes == {"v1", "n1", "n2"}

InitPermission ==
  InitState(Genesis(GenesisConfig(SlashBalances, LedgerCdds, "NotForcing", 2, 1, 0, 0,
                                  SlashStakers)))

NextPermission ==
  \/ GenesisNewSession
  \/ GenesisStartSession
  \/ EndSession(RewardPayouts)
  \/ StartSession
  \/ NewSession
  \/ OnFinalize
  \/ AddPermissionedValidatorFrom(PermissionOrigins, PermissionStashes)
  \/ RemovePermissionedValidator(PermissionOrigins, PermissionStashes)

SpecPermission == InitPermission /\ [][NextPermission]_vars

\* C31: from root add_permissioned_validator inserts the stash as Pending
\* or fails with AlreadyExists, and remove_permissioned_validator removes
\* the entry or fails with NotExists; from another origin both fail with
\* NotAuthorised; a failed call changes nothing.
C31_RootAddsAndRemoves ==
  [][ /\ last'.op = "add_permissioned_validator" =>
           IF last'.who # "Root"
           THEN last'.err = "NotAuthorised" /\ storage' = storage
           ELSE IF last'.arg \in DOMAIN PermissionedValidators
                THEN last'.err = "AlreadyExists" /\ storage' = storage
                ELSE /\ last'.err = "Ok"
                     /\ PermissionedValidators' =
                          Insert(PermissionedValidators, last'.arg, "Pending")
      /\ last'.op = "remove_permissioned_validator" =>
           IF last'.who # "Root"
           THEN last'.err = "NotAuthorised" /\ storage' = storage
           ELSE IF last'.arg \in DOMAIN PermissionedValidators
                THEN /\ last'.err = "Ok"
                     /\ PermissionedValidators' = Remove(PermissionedValidators, last'.arg)
                ELSE last'.err = "NotExists" /\ storage' = storage
    ]_vars

(***************************************************************************)
(* Specification of the invulnerables: the chain of SpecSlash with a      *)
(* nominator n1 behind v1, in which root changes Invulnerables between     *)
(* the reports.                                                            *)
(***************************************************************************)
InvulnerableBalances ==
  [a \in Accounts |-> IF a \in {"v1", "v2", "n1"} THEN 30 ELSE 0]

InvulnerableStakers ==
  << Staker("v1", "v1", 30, "Validator", <<>>),
     Staker("v2", "v2", 30, "Validator", <<>>),
     Staker("n1", "n1", 30, "Nominator", <<"v1">>) >>

InvulnerableSets == {{}, {"v1"}}

InitInvulnerable ==
  \E slash_defer_duration \in DeferDurations :
    InitState(Genesis(GenesisConfig(InvulnerableBalances, LedgerCdds, "ForceAlways", 2, 1,
                                    slash_defer_duration, 0, InvulnerableStakers)))

NextInvulnerable ==
  \/ GenesisNewSession
  \/ GenesisStartSession
  \/ EndSession(RewardPayouts)
  \/ StartSession
  \/ NewSession
  \/ OnFinalize
  \/ OnOffence({Accuracy \div 2, Accuracy}, 2)
  \/ SetInvulnerables(InvulnerableSets)

SpecInvulnerable == InitInvulnerable /\ [][NextInvulnerable]_vars

\* C32: a report against a stash in Invulnerables queues nothing, applies
\* nothing and changes no ledger, lock or balance, whatever the fraction
\* and the deferral; every queued slash names no nominator.
C32_InvulnerablesAreExempt ==
  [][last'.op = "on_offence" =>
       /\ last'.who \in Invulnerables =>
            /\ UnappliedSlashes' = UnappliedSlashes
            /\ slashlog' = slashlog
            /\ Ledger' = Ledger /\ free' = free /\ locks' = locks
       /\ \A era \in DOMAIN UnappliedSlashes' :
            \A k \in 1..Len(UnappliedSlashes'[era]) :
              UnappliedSlashes'[era][k].others = <<>>]_vars

\* v1, whose exposure holds the nominator n1, has been reported and its
\* slash queued; v1 is then made invulnerable and reported again.
C32_Witness ==
  /\ last.op = "on_offence" /\ last.who = "v1" /\ "v1" \in Invulnerables
  /\ \E era \in DOMAIN UnappliedSlashes :
       \E k \in 1..Len(UnappliedSlashes[era]) :
         /\ UnappliedSlashes[era][k].validator = "v1"
         /\ eras_stakers(Cur, era, "v1").others # <<>>

(***************************************************************************)
(* Specification of the reward points: the chain of SpecSlash without      *)
(* offences, in which points are given to validators, also before the      *)
(* first era is active, and root shortens the history.                     *)
(***************************************************************************)
\* Arguments of reward_by_ids.
PointLists ==
  { <<>>, <<<<"v1", AuthorPoints>>>>, <<<<"v1", 1>>, <<"v2", 2>>, <<"v1", 1>>>> }

InitPoints ==
  InitState(Genesis(GenesisConfig(SlashBalances, LedgerCdds, "ForceAlways", 2, 1, 0, 0,
                                  SlashStakers)))

NextPoints ==
  \/ GenesisNewSession
  \/ GenesisStartSession
  \/ EndSession(RewardPayouts)
  \/ StartSession
  \/ NewSession
  \/ OnFinalize
  \/ RewardByIds(PointLists, AuthorPoints \div 4)
  \/ SetHistoryDepth(HistoryDepths)

SpecPoints == InitPoints /\ [][NextPoints]_vars

\* The points the entries of `list` give to `validator`.
RECURSIVE PointsFor(_, _)
PointsFor(list, validator) ==
  IF list = <<>> THEN 0
  ELSE (IF list[1][1] = validator THEN list[1][2] ELSE 0) + PointsFor(Tail(list), validator)

\* `after` is `before` with the points of `list` added to each named
\* validator and all of them to the total.
PointsAdded(before, after, list) ==
  LET named == {list[k][1] : k \in 1..Len(list)} IN
  /\ DOMAIN after.individual = DOMAIN before.individual \cup named
  /\ \A v \in DOMAIN after.individual :
       after.individual[v] = Get(before.individual, v, 0) + PointsFor(list, v)
  /\ after.total = before.total + SumFn([v \in named |-> PointsFor(list, v)], named)

\* C33: the total of every stored era equals the sum of its validators'
\* points; reward_by_ids adds its amounts to the active era only and does
\* nothing without an active era; the stored points of an era that is not
\* the active era do not change, until the era falls out of the history
\* and is cleared.
C33_PointsAddUpAndFreeze ==
  [][ /\ \A e \in DOMAIN ErasRewardPoints' :
           ErasRewardPoints'[e].total =
             SumFn(ErasRewardPoints'[e].individual, DOMAIN ErasRewardPoints'[e].individual)
      /\ last'.op = "reward_by_ids" =>
           IF IsNone(ActiveEra) THEN storage' = storage
           ELSE /\ PointsAdded(eras_reward_points(Cur, ActiveIndex),
                               ErasRewardPoints'[ActiveIndex], last'.arg)
                /\ \A e \in (DOMAIN ErasRewardPoints \cup DOMAIN ErasRewardPoints')
                             \ {ActiveIndex} :
                     /\ e \in DOMAIN ErasRewardPoints /\ e \in DOMAIN ErasRewardPoints'
                     /\ ErasRewardPoints'[e] = ErasRewardPoints[e]
      /\ \A e \in DOMAIN ErasRewardPoints :
           (IsNone(ActiveEra) \/ e # ActiveIndex) =>
             IF e \in DOMAIN ErasRewardPoints'
             THEN ErasRewardPoints'[e] = ErasRewardPoints[e]
             ELSE /\ last'.op \in {"new_session", "set_history_depth"}
                  /\ e + HistoryDepth' < Unwrap(CurrentEra')
    ]_vars

\* Era 1 is active and has received v1's points from two entries of one
\* call, while era 0 keeps the points it received.
C33_Witness ==
  /\ last.op = "reward_by_ids" /\ Len(last.arg) = 3
  /\ IsSome(ActiveEra) /\ ActiveIndex = 1
  /\ 0 \in DOMAIN ErasRewardPoints /\ ErasRewardPoints[0].total > 0
  /\ 1 \in DOMAIN ErasRewardPoints /\ ErasRewardPoints[1].individual["v1"] = 2

(***************************************************************************)
(* Specification of the bonded eras: the chain of SpecSched run for        *)
(* BondingDuration more sessions, so that eras leave the bonding window.   *)
(***************************************************************************)
InitBonded ==
  \E force_era \in {"NotForcing", "ForceAlways"} :
    InitState(Genesis(GenesisConfig(SlashBalances, LedgerCdds, force_era, 2, 1, 0, 0,
                                    SlashStakers)))

NextBonded ==
  \/ GenesisNewSession
  \/ GenesisStartSession
  \/ EndSessionWithin(RewardPayouts, MaxSession + BondingDuration)
  \/ StartSession
  \/ NewSession
  \/ OnFinalize
  \/ ForceNewEra
  \/ ForceNewEraAlways

SpecBonded == InitBonded /\ [][NextBonded]_vars

\* C34: a start_session that starts era a leaves BondedEras as the eras
\* from max(0, a - BondingDuration) to a, in order and without gaps, era a
\* with the index of this session and the others with the pairs they had;
\* BondedEras never holds more than BondingDuration + 1 eras.
C34_BondedErasAreTheWindow ==
  [][ /\ Len(BondedEras') <= BondingDuration + 1
      /\ (last'.op = "start_session" /\ ActiveEra' # ActiveEra) =>
           LET a == Unwrap(ActiveEra').index
               first == Max(0, a - BondingDuration)
           IN /\ Len(BondedEras') = a - first + 1
              /\ \A k \in 1..Len(BondedEras') : BondedEras'[k][1] = first + k - 1
              /\ BondedEras'[Len(BondedEras')] = <<a, last'.arg>>
              /\ \A k \in 1..(Len(BondedEras') - 1) :
                   BondedEras'[k] \in SeqToSet(BondedEras)
    ]_vars

\* Era BondingDuration + 1 has started, in a later session than the one
\* of its index, and era 0 has left the window.
C34_Witness ==
  /\ last.op = "start_session"
  /\ IsSome(ActiveEra) /\ ActiveIndex = BondingDuration + 1
  /\ BondedEras[1][1] = 1
  /\ last.arg > ActiveIndex


\* ---------------------------------------------------------------------------
\* The lock of the unbonded funds: chunks are created by unbond and by
\* validate_cdd_expiry_nominators, returned to active by rebond, consumed by
\* a slash, dropped with the ledger by force_unstake, and released by
\* withdraw_unbonded.
\* ---------------------------------------------------------------------------
LockBalances == [a \in Accounts |-> IF a \in {"v1", "n1"} THEN 40 ELSE 0]

LockStakers ==
  << Staker("v1", "v1", 40, "Validator", <<>>),
     Staker("n1", "n1", 40, "Nominator", <<"v1">>) >>

InitLock ==
  InitState(Genesis(GenesisConfig(LockBalances, LedgerCdds, "ForceAlways", 1, 1, 0, 0,
                                  LockStakers)))

NextLock ==
  \/ GenesisNewSession
  \/ GenesisStartSession
  \/ EndSession(EraPayouts)
  \/ StartSession
  \/ NewSession
  \/ OnFinalize
  \/ Unbond({"n1"}, {10, 40}, MaxChunks)
  \/ Rebond({"n1"}, {10})
  \/ WithdrawUnbonded({"n1"})
  \/ CddChange({"n1"}, {"expired"})
  \/ ValidateCddExpiryNominators({"v1"}, {<<"n1">>})
  \/ SlashLedger({"n1"}, {35})
  \/ ForceUnstake({"n1"})

SpecLock == InitLock /\ [][NextLock]_vars

IsPrefix(s, t) == Len(s) <= Len(t) /\ \A k \in 1..Len(s) : t[k] = s[k]

\* The chunks of `stash` that are not mature in the era of the next state are
\* still in its ledger in the next state, in the same order, counted in
\* total and locked.
UnmaturedChunksStay(stash) ==
  LET kept == Unmatured(Ledger[Bonded[stash]].unlocking, Unwrap(CurrentEra'))
  IN kept # <<>>
     => /\ stash \in DOMAIN Bonded'
        /\ Bonded'[stash] \in DOMAIN Ledger'
        /\ LET after == Ledger'[Bonded'[stash]]
           IN /\ IsPrefix(kept, Unmatured(after.unlocking, Unwrap(CurrentEra')))
              /\ after.total >= after.active + ChunkSum(after.unlocking)
              /\ stash \in DOMAIN locks'
              /\ locks'[stash] = after.total

\* A step that appends a chunk to the ledger of `controller` gives it the
\* maturity era current_era + BondingDuration.
NewChunkMaturity(controller) ==
  (/\ controller \in DOMAIN Ledger'
   /\ Len(Ledger'[controller].unlocking) > Len(Ledger[controller].unlocking))
  => /\ last'.op \in {"unbond", "validate_cdd_expiry_nominators"}
     /\ Len(Ledger'[controller].unlocking) = Len(Ledger[controller].unlocking) + 1
     /\ Ledger'[controller].unlocking[Len(Ledger'[controller].unlocking)].era
          = Unwrap(CurrentEra) + BondingDuration

\* withdraw_unbonded of a controller: the ledger keeps exactly the chunks
\* with era > current_era, total drops by the sum of the others and active
\* stays; a ledger left with no chunk and active = 0 is removed whole.
WithdrawRemovesTheMatured(controller) ==
  LET ledger == Ledger[controller]
      kept == Unmatured(ledger.unlocking, Unwrap(CurrentEra))
  IN IF ledger.active = 0 /\ kept = <<>>
     THEN controller \notin DOMAIN Ledger' /\ ledger.stash \notin DOMAIN locks'
     ELSE /\ controller \in DOMAIN Ledger'
          /\ Ledger'[controller].unlocking = kept
          /\ Ledger'[controller].total = ledger.total - (ChunkSum(ledger.unlocking) - ChunkSum(kept))
          /\ Ledger'[controller].active = ledger.active
          /\ locks'[ledger.stash] = Ledger'[controller].total

\* C35 as stated: a chunk created by unbond or validate_cdd_expiry_nominators
\* in era e stays in the ledger, counted in total and in the lock, in every
\* state with current_era < e + BondingDuration; withdraw_unbonded removes
\* exactly the chunks with era <= current_era, lowers total by their sum and
\* never changes active.
C35_ChunksStayForTheBondingDuration ==
  [][(IsSome(CurrentEra) /\ IsSome(CurrentEra'))
     => /\ \A stash \in DOMAIN Bonded :
             Bonded[stash] \in DOMAIN Ledger => UnmaturedChunksStay(stash)
        /\ \A controller \in DOMAIN Ledger : NewChunkMaturity(controller)
        /\ (last'.op = "withdraw_unbonded" /\ last'.who \in DOMAIN Ledger)
           => WithdrawRemovesTheMatured(last'.who)]_vars

\* C35 amended: the chunks stay until their maturity era in every step other
\* than rebond, a slash and force_unstake; rebond returns the newest chunks to
\* active and leaves total and the lock as they are; withdraw_unbonded
\* removes exactly the chunks with era <= current_era, lowers total by their
\* sum and never changes active.
C35_ChunksStayUnlessRebondedSlashedOrUnstaked ==
  [][(IsSome(CurrentEra) /\ IsSome(CurrentEra'))
     => /\ last'.op \notin {"rebond", "slash", "force_unstake"}
           => \A stash \in DOMAIN Bonded :
                Bonded[stash] \in DOMAIN Ledger => UnmaturedChunksStay(stash)
        /\ (last'.op = "rebond" /\ last'.who \in DOMAIN Ledger)
           => /\ last'.who \in DOMAIN Ledger'
              /\ Ledger'[last'.who].total = Ledger[last'.who].total
              /\ locks' = locks
        /\ \A controller \in DOMAIN Ledger : NewChunkMaturity(controller)
        /\ (last'.op = "withdraw_unbonded" /\ last'.who \in DOMAIN Ledger)
           => WithdrawRemovesTheMatured(last'.who)]_vars

\* A withdraw_unbonded released a mature chunk while a chunk that is not
\* mature stayed in the ledger, after the expiry of the nominator's CDD claim
\* had unbonded the rest.
C35_Witness ==
  /\ last.op = "withdraw_unbonded"
  /\ last.err = "Ok"
  /\ "n1" \in DOMAIN Ledger
  /\ Len(Ledger["n1"].unlocking) = 1
  /\ Ledger["n1"].unlocking[1].era > Unwrap(CurrentEra)
  /\ Ledger["n1"].total < 40
  /\ Ledger["n1"].active = 0
  /\ cdd["n1"] = "expired"


\* ---------------------------------------------------------------------------
\* Progress of the scheduler: the session module keeps calling end_session,
\* start_session and new_session in the order of its contract, so every step
\* of the rotation that is enabled is eventually taken (weak fairness of the
\* steps of the rotation; the calls of root are not fair). The chain has
\* LiveSessions sessions; progress is stated for the eras that the remaining
\* sessions have room for.
\* ---------------------------------------------------------------------------
LiveSessions == MaxSession + SessionsPerEra

\* The payout of an era of the chain.
LivePayouts == {10}

\* minimum_validator_count of the genesis: 2 lets the two validators be
\* elected, 3 makes every election fail.
LiveMinimumCounts == {2, 3}

InitLive ==
  \E force_era \in Forcings \ {"ForceNone"}, minimum_validator_count \in LiveMinimumCounts :
    InitState(Genesis(GenesisConfig(SlashBalances, LedgerCdds, force_era, 2,
                                    minimum_validator_count, 0, 0, SlashStakers)))

NextLive ==
  \/ GenesisNewSession
  \/ GenesisStartSession
  \/ EndSessionWithin(LivePayouts, LiveSessions)
  \/ StartSession
  \/ NewSession
  \/ OnFinalize
  \/ ForceNoEras
  \/ ForceNewEra

SessionsKeepArriving ==
  /\ WF_vars(GenesisNewSession)
  /\ WF_vars(GenesisStartSession)
  /\ WF_vars(EndSessionWithin(LivePayouts, LiveSessions))
  /\ WF_vars(StartSession)
  /\ WF_vars(NewSession)
  /\ WF_vars(OnFinalize)

SpecLive == InitLive /\ [][NextLive]_vars /\ SessionsKeepArriving

\* The index of the next new_session call and of the next start_session call.
NextNewSessionIndex ==
  CASE session.pc = "genesis" -> 0
    [] session.pc = "genesis_queued" -> 1
    [] session.pc = "rotate_new" -> session.index + 1
    [] OTHER -> session.index + 2

NextStartSessionIndex ==
  IF session.pc \in {"genesis", "genesis_queued", "genesis_start"} THEN 0
  ELSE session.index + 1

\* The chain still has a new_session call at which an era of SessionsPerEra
\* sessions has elapsed since the start of the current era.
RoomToPlan ==
  /\ IsSome(CurrentEra)
  /\ Max(NextNewSessionIndex,
         Get(ErasStartSessionIndex, Unwrap(CurrentEra), 0) + SessionsPerEra) <= LiveSessions

\* The chain still has the start_session call of the session the current era
\* was planned for.
RoomToStart ==
  /\ IsSome(CurrentEra)
  /\ Unwrap(CurrentEra) \in DOMAIN ErasStartSessionIndex
  /\ Max(NextStartSessionIndex, ErasStartSessionIndex[Unwrap(CurrentEra)]) <= LiveSessions - 1

EraPlanned(e) == IsSome(CurrentEra) /\ Unwrap(CurrentEra) >= e

\* The current era is planned and not yet started; the current era is the
\* active era.
EraPending ==
  /\ IsSome(CurrentEra)
  /\ IsSome(ActiveEra) => ActiveIndex < Unwrap(CurrentEra)

EraCaughtUp ==
  /\ IsSome(CurrentEra)
  /\ IsSome(ActiveEra)
  /\ ActiveIndex = Unwrap(CurrentEra)

\* A step that changes an era index raises it by one.
ErasMoveByOne ==
  /\ CurrentEra' # CurrentEra => CurrentEra' = Some(NextPlanned)
  /\ IsSome(ActiveEra')
     => \/ IsSome(ActiveEra) /\ Unwrap(ActiveEra').index \in {ActiveIndex, ActiveIndex + 1}
        \/ IsNone(ActiveEra) /\ Unwrap(ActiveEra').index = 0

\* C36: with the session signals arriving in the order of the contract, the
\* first era is eventually planned; once the current era is the active era
\* the next era is eventually planned, unless ForceEra becomes ForceNone; and
\* a planned era eventually becomes the active era, whether the elections
\* succeed or fail. The era indices move by one, so no era is skipped.
C36_ErasKeepComing ==
  /\ [][ErasMoveByOne]_vars
  /\ <>EraPlanned(0)
  /\ (EraCaughtUp /\ ForceEra # "ForceNone" /\ RoomToPlan)
       ~> (EraPending \/ ForceEra = "ForceNone")
  /\ (EraPending /\ RoomToStart) ~> EraCaughtUp

\* The era planned after two eras became the active era although every
\* election of the chain, the one of the genesis included, had no result.
C36_Witness ==
  /\ IsSome(CurrentEra)
  /\ Unwrap(CurrentEra) >= 2
  /\ EraCaughtUp
  /\ session.failed = 0..Unwrap(CurrentEra)
  /\ ForceEra = "NotForcing"


\* ---------------------------------------------------------------------------
\* The order of the era indices, in the chain of the scheduler (SpecSched:
\* the rotation of the session module, root forcing eras and changing the
\* history depth, a validator leaving and returning).
\* ---------------------------------------------------------------------------
\* The active era is not after the current era and at most one era behind it,
\* and the start session of the current era is recorded.
EraOrder ==
  /\ IsSome(ActiveEra) => IsSome(CurrentEra) /\ ActiveIndex <= Unwrap(CurrentEra)
  /\ IsSome(CurrentEra) => Unwrap(CurrentEra) \in DOMAIN ErasStartSessionIndex
  /\ (IsSome(ActiveEra) /\ IsSome(CurrentEra)) => Unwrap(CurrentEra) <= ActiveIndex + 1

\* C37: in every state the active era index is <= the current era index, the
\* start session of the current era is recorded, and the current era is at
\* most one era ahead of the active era; CurrentEra changes only in
\* new_session, by exactly 1 (to 0 when there was none), recording the
\* session index of the call as the start session of the planned era.
C37_ErasStayInOrder ==
  [][/\ EraOrder
     /\ EraOrder'
     /\ CurrentEra' # CurrentEra
          => /\ last'.op = "new_session"
             /\ CurrentEra' = Some(NextPlanned)
             /\ ErasStartSessionIndex'[NextPlanned] = last'.arg]_vars

\* A new_session call planned an era beyond the first two while the era
\* before it was active, after set_history_depth(0) had cleared the
\* information of the older eras.
C37_Witness ==
  /\ last.op = "new_session"
  /\ IsSome(CurrentEra)
  /\ IsSome(ActiveEra)
  /\ Unwrap(CurrentEra) >= 2
  /\ Unwrap(CurrentEra) = ActiveIndex + 1
  /\ HistoryDepth = 0
  /\ DOMAIN ErasStartSessionIndex = {Unwrap(CurrentEra)}


\* ---------------------------------------------------------------------------
\* The pairing of stashes and controllers: two accounts bond with themselves,
\* with each other or with a third account as controller, change their
\* controllers, unbond everything and withdraw, and are removed by
\* force_unstake and reap_stash.
\* ---------------------------------------------------------------------------
PairBalances == [a \in Accounts |-> CASE a = "v1" -> 30 [] a = "n1" -> 50 [] OTHER -> 0]

PairStakers == << Staker("v1", "v1", 30, "Validator", <<>>) >>

PairStashes == {"n1", "n2"}
PairControllers == {"n1", "n2", "c1"}

InitPair ==
  InitState(Genesis(GenesisConfig(PairBalances, LedgerCdds, "ForceAlways", 1, 1, 0, 0,
                                  PairStakers)))

NextPair ==
  \/ GenesisNewSession
  \/ GenesisStartSession
  \/ EndSession(EraPayouts)
  \/ StartSession
  \/ NewSession
  \/ OnFinalize
  \/ BondTo(PairStashes, PairControllers, {50}, {"Staked"})
  \/ SetController(PairStashes, PairControllers)
  \/ Unbond(PairControllers, {50}, MaxChunks)
  \/ WithdrawUnbonded(PairControllers)
  \/ ForceUnstake(PairStashes)
  \/ ReapStash(PairStashes)

SpecPair == InitPair /\ [][NextPair]_vars

\* Bonded and Ledger pair the stashes and the controllers one to one.
PairingIsBijection ==
  /\ \A s \in DOMAIN Bonded :
       Bonded[s] \in DOMAIN Ledger /\ Ledger[Bonded[s]].stash = s
  /\ \A c \in DOMAIN Ledger :
       Ledger[c].stash \in DOMAIN Bonded /\ Bonded[Ledger[c].stash] = c
  /\ \A s1, s2 \in DOMAIN Bonded : Bonded[s1] = Bonded[s2] => s1 = s2
  /\ \A c1, c2 \in DOMAIN Ledger : Ledger[c1].stash = Ledger[c2].stash => c1 = c2

\* C38: Bonded[s] = c holds exactly when Ledger[c] exists with stash s, no
\* controller is paired with two stashes and no stash has two ledgers, in
\* every state; set_controller of a bonded stash moves the unchanged ledger to
\* the new controller, and fails with AlreadyPaired and changes nothing when
\* the new controller has a ledger.
C38_PairingIsOneToOne ==
  [][/\ PairingIsBijection
     /\ PairingIsBijection'
     /\ (last'.op = "set_controller" /\ last'.who \in DOMAIN Bonded)
        => LET stash == last'.who
               controller == last'.arg
               old_controller == Bonded[stash]
           IN IF controller \in DOMAIN Ledger
              THEN last'.err = "AlreadyPaired" /\ storage' = storage
              ELSE /\ last'.err = "Ok"
                   /\ Bonded' = Insert(Bonded, stash, controller)
                   /\ Ledger' = Insert(Remove(Ledger, old_controller), controller,
                                       Ledger[old_controller])
                   /\ old_controller \notin DOMAIN Ledger'
                   /\ UNCHANGED <<Payee, Validators, Nominators, locks>>]_vars

\* set_controller moved the ledger of n1 to the controller c1 while n2 is
\* bonded with the account n1 as its controller.
C38_Witness ==
  /\ last.op = "set_controller"
  /\ last.err = "Ok"
  /\ last.who = "n1"
  /\ "n1" \in DOMAIN Bonded
  /\ Bonded["n1"] = "c1"
  /\ Ledger["c1"].stash = "n1"
  /\ "n2" \in DOMAIN Bonded
  /\ Bonded["n2"] = "n1"


\* ---------------------------------------------------------------------------
\* The roles of the stashes: the genesis validators v1 and v2 and the
\* nominator n1 change between validating, nominating and neither; n1 is
\* removed by force_unstake and bonds again.
\* ---------------------------------------------------------------------------
RoleControllers == {"v1", "n1"}

RoleLists ==
  { <<>>, <<"v2">>, [k \in 1..(MAX_NOMINATIONS + 1) |-> IF k = 1 THEN "v2" ELSE "v1"] }

InitRoles ==
  InitState(Genesis(GenesisConfig(InvulnerableBalances, LedgerCdds, "NotForcing", 2, 1, 0, 0,
                                  InvulnerableStakers)))

NextRoles ==
  \/ GenesisNewSession
  \/ GenesisStartSession
  \/ EndSession(EraPayouts)
  \/ StartSession
  \/ NewSession
  \/ OnFinalize
  \/ Validate(RoleControllers, {0})
  \/ Nominate(RoleControllers, RoleLists)
  \/ Chill(RoleControllers)
  \/ ForceUnstake({"n1"})
  \/ BondTo({"n1"}, {"n1"}, {30}, {"Staked"})

SpecRoles == InitRoles /\ [][NextRoles]_vars

\* No stash validates and nominates, every stash that does either is bonded
\* and has its ledger, and a nomination has 1 to MAX_NOMINATIONS targets.
RolesAreSound ==
  /\ DOMAIN Validators \cap DOMAIN Nominators = {}
  /\ \A stash \in DOMAIN Validators \cup DOMAIN Nominators :
       /\ stash \in DOMAIN Bonded
       /\ Bonded[stash] \in DOMAIN Ledger
       /\ Ledger[Bonded[stash]].stash = stash
  /\ \A stash \in DOMAIN Nominators :
       /\ Len(Nominators[stash].targets) >= 1
       /\ Len(Nominators[stash].targets) <= MAX_NOMINATIONS

\* C39: in every state no stash is in Validators and in Nominators, every
\* stash in either is bonded and has a ledger, and every nomination has 1 to
\* 16 targets; chill by a controller removes its stash from both tables in
\* the call and changes nothing else.
C39_RolesAreExclusiveAndBonded ==
  [][/\ RolesAreSound
     /\ RolesAreSound'
     /\ (last'.op = "chill" /\ last'.who \in DOMAIN Ledger)
        => LET stash == Ledger[last'.who].stash
           IN /\ last'.err = "Ok"
              /\ Validators' = Remove(Validators, stash)
              /\ Nominators' = Remove(Nominators, stash)
              /\ stash \notin DOMAIN Validators' \cup DOMAIN Nominators'
              /\ UNCHANGED <<currencyVars, cdd, configVars, ledgerVars,
                             PermissionedValidators, eraVars, exposureVars,
                             rewardVars, slashVars>>]_vars

\* chill removed the nomination of n1, which had been cut to MAX_NOMINATIONS
\* targets, after v1 had changed from validating to nominating.
C39_Witness ==
  /\ last.op = "chill"
  /\ last.err = "Ok"
  /\ last.who = "n1"
  /\ "n1" \in DOMAIN Bonded
  /\ "n1" \notin DOMAIN Validators \cup DOMAIN Nominators
  /\ "v1" \in DOMAIN Nominators
  /\ Len(Nominators["v1"].targets) = MAX_NOMINATIONS


\* ---------------------------------------------------------------------------
\* The commission regime: the chain starts under a global commission of 0 or
\* 10%, or under individual commissions; the committee changes the global
\* commission and enables individual commissions; the validator v1 and the
\* nominator n1 declare themselves validators at 0 or 10% and chill.
\* ---------------------------------------------------------------------------
RegimeCommissions == {Some(0), Some(Accuracy \div 10), None}

InitRegime ==
  \E commission \in RegimeCommissions :
    InitState(GenesisWithCommission(
      GenesisConfig(InvulnerableBalances, LedgerCdds, "NotForcing", 2, 1, 0, 0,
                    InvulnerableStakers),
      commission))

NextRegime ==
  \/ GenesisNewSession
  \/ GenesisStartSession
  \/ EndSession(EraPayouts)
  \/ StartSession
  \/ NewSession
  \/ OnFinalize
  \/ SetGlobalCommission(RewardCommissions)
  \/ EnableIndividualCommissions
  \/ Validate({"v1", "n1"}, RewardCommissions)
  \/ Chill({"v1", "n1"})

SpecRegime == InitRegime /\ [][NextRegime]_vars

\* Under Global(c) every declared validator has the commission c.
GlobalCommissionIsShared ==
  IsSome(ValidatorCommission)
    => \A v \in DOMAIN Validators : Validators[v].commission = Unwrap(ValidatorCommission)

=============================================================================
